---- MODULE Spec2Model ----
(***************************************************************************)
(* State-machine model of the negotiation call page (NegotiationClient in  *)
(* frontend/app/(call)/negotiation/OpponentOrb.tsx) and of the session     *)
(* phase store (NegotiationContext.tsx).                                   *)
(*                                                                         *)
(* JavaScript runs every callback to completion, so one action is one      *)
(* callback (an event handler, a timer, or the continuation of an await).  *)
(* Sizes are counted in MiB.  A recorded segment is identified by its      *)
(* index in recordedChunksRef, which holds the segments' sizes.            *)
(***************************************************************************)
EXTENDS Integers, Sequences, FiniteSets, TLC

\* ---- bounds of the model ----
MaxSegs == 3          \* segments the recorder emits, upload pipeline specification
MaxEndSegs == 2       \* segments the recorder emits, session-end specifications
MaxEndClicks == 2     \* clicks on the end button
MaxPartAttempts == 3  \* upload attempts of one part the model follows
ScenarioSegs == 6     \* segments of the end-to-end upload scenario
StartTime == 5000     \* Date.now() when the socket opens, ms
MaxTicks == 7         \* clock steps the model follows, barge-in specification
MaxTtsTicks == 2      \* clock steps the model follows, TTS scheduling specification
MaxChunks == 3        \* audio_chunk messages received, TTS scheduling specification
MaxBargeChunks == 1   \* audio_chunk messages received, barge-in specification
MaxUtterances == 2    \* audio_start messages received
MaxErrorChunks == 2   \* audio_chunk messages received, message error specification
MaxInputLen == 6      \* samples in a buffer given to downsampleBuffer
SampleScale == 1000   \* a sample is a multiple of 1 / SampleScale

\* ---- program constants ----
MIN_PART_SIZE == 5
PostMortemAttempts == 6
FrameMs == 256         \* one ScriptProcessor buffer of 4096 samples at 16 kHz, ms

\* sizes (MiB) a recorder segment may have
SegSizes == {1, 3, 5}

\* durations of the audio chunks the server sends, ms
ChunkDurations == {FrameMs, 4 * FrameMs}

VARIABLES
  sessionId,              \* the sessionId URL parameter is present
  phase,                  \* NegotiationState.phase
  callStartedAt,          \* NegotiationState.callStartedAt, ms; NotStarted when null
  gum,                    \* getUserMedia: "idle" | "pending" | "done"
  stream,                 \* "none" | "live" | "stopped"
  mediaError,
  recorderState,          \* "none" | "recording" | "inactive"
  recEvents,              \* events queued by MediaRecorder.stop(): "none" | "flush" | "stop" | "done"
  startReq,               \* startMultipartUpload: "none" | "pending" | "done"
  uploadIdRef,            \* the upload handle has been obtained
  recordedChunksRef,      \* sizes of all segments, in arrival order
  pendingChunksRef,       \* segment ids waiting for upload
  partNumberRef,
  uploadingRef,
  uploadedPartsRef,       \* sequence of parts [part_number, chunks]; a part also
                          \* carries its history: first (the chunks of its first
                          \* sealing), retried (it was sealed again after a failure)
                          \* and, while in flight, attempts (the number of times
                          \* it was sealed)
  partUpload,             \* the proactive part in flight, or NoPart
  finalUpload,            \* the final part in flight (onstop), or NoPart
  wsState,                \* "none" (wsRef null) | "connecting" | "open" | "closing" | "closed"
  socketReady,
  wsSent,                 \* control messages sent on the socket, in order
  autoEndRef,
  negotiationCompleteRef,
  sessionDataStoredRef,
  sessionDataStoredResolveRef, \* id of the wait it resolves, 0 when null
  waiters,                \* ids of waitForSessionDataStored promises with a running timer
  showTimers,             \* number of pending 500 ms timers that show the dialog
  ttsEndTimerRef,         \* the idle timer set by audio_end is pending
  showVisibilityDialog,
  isProcessingPostMortem,
  flows,                  \* running handleVisibilitySelect calls
  completeRequests,       \* completeMultipartUpload calls made
  navigated,              \* "no" | "postmortem" | "dashboard"
  endClicks,              \* history: number of handleEndSession calls
  waitElapsed,            \* history: a 10 s wait has timed out
  unGated,                \* history: a dialog timer was started on a path that does not wait
  dialogShown,            \* history: the dialog has been shown
  rejected,               \* history: the last message ws.onmessage threw on, if any
  canvasAnimationRef,     \* the draw loop of the recording canvas is running
  recordingAudioContextRef, \* recording audio graph: "none" | "open" | "closed"
  inputContextRef,        \* uplink audio graph: "none" | "open" | "closed"
  mounted,                \* NegotiationClient is mounted
  now,                    \* the clock, in ms: Date.now() and the playback clock
  ttsContextRef,          \* the playback AudioContext exists
  ttsQueueEndRef,         \* time at which the scheduled TTS audio ends
  ttsSourcesRef,          \* tracked sources: indices into ttsAudio, in push order
  ttsAudio,               \* every TTS source created, in order: [start, stop, utt],
                          \* audible from start until stop
  ttsStartTimeRef,
  isTtsPlayingRef,
  speechFrameCountRef,
  lastBargeInRef,
  isMuted,
  processorMuted,         \* the isMuted value captured by processor.onaudioprocess
  lastFrame,              \* history: the audio frame handled in this clock step,
                          \* [loud, sent], NoFrame before it is handled
  utterance,              \* history: number of audio_start messages received
  speechRun,              \* history: number of most recent audio frames, up to 3,
                          \* that were consecutive, processed, above the threshold
                          \* while TTS was playing and of the current playback
  bargeIns,               \* history: every barge-in fired, [at, run, start, utt]
  ttsEndTimerFor,         \* history: utterance in which the idle timer was last set
  frameDue,               \* the uplink graph has an audio frame to deliver
  connections,            \* history: number of sockets created
  dsp                     \* a call of an audio conversion function: [fn, input, inputSampleRate,
                          \* outputSampleRate, output, done]

uploadVars == <<startReq, uploadIdRef, recordedChunksRef, pendingChunksRef,
                partNumberRef, uploadingRef, uploadedPartsRef, partUpload, finalUpload>>
captureVars == <<gum, stream, mediaError, recorderState, recEvents>>
socketVars == <<wsState, socketReady, wsSent>>
endVars == <<autoEndRef, negotiationCompleteRef, sessionDataStoredRef,
             sessionDataStoredResolveRef, waiters, showTimers, ttsEndTimerRef>>
finishVars == <<showVisibilityDialog, isProcessingPostMortem, flows,
                completeRequests, navigated>>
histVars == <<endClicks, waitElapsed, unGated, dialogShown, rejected>>
resourceVars == <<canvasAnimationRef, recordingAudioContextRef, inputContextRef, mounted>>
playVars == <<ttsContextRef, ttsQueueEndRef, ttsSourcesRef, ttsAudio, ttsStartTimeRef, utterance>>
bargeVars == <<speechFrameCountRef, lastBargeInRef, isMuted, processorMuted, lastFrame,
              frameDue, speechRun, bargeIns>>
ttsVars == <<now, playVars, bargeVars, isTtsPlayingRef, ttsEndTimerFor>>
vars == <<sessionId, dsp, connections, phase, callStartedAt, uploadVars, captureVars, socketVars,
          endVars, finishVars, histVars, resourceVars, ttsVars>>

NoPart == [part_number |-> 0, chunks |-> <<>>, first |-> <<>>, retried |-> FALSE,
           attempts |-> 0]

SeqRange(q) == {q[i] : i \in 1..Len(q)}

NoFrame == [loud |-> FALSE, sent |-> FALSE]

RECURSIVE SumSizes(_, _)
SumSizes(sizes, ids) ==
  IF ids = <<>> THEN 0 ELSE sizes[Head(ids)] + SumSizes(sizes, Tail(ids))

\* pendingChunksRef.current.reduce((sum, chunk) => sum + chunk.size, 0)
totalSize(sizes, ids) == SumSizes(sizes, ids)

\* no conversion function is being followed
NoDsp == [fn |-> "none", input |-> <<>>, inputSampleRate |-> 0, outputSampleRate |-> 0,
          output |-> <<>>, done |-> FALSE]

\* callStartedAt: null
NotStarted == 0

\* sockets followed over the reloads of the page
MaxConnections == 3

\* clock steps followed over the reloads of the page
MaxReconnectTicks == 4

\* the page after construction
CallInit ==
  /\ sessionId \in BOOLEAN
  /\ phase = "notes"
  /\ callStartedAt = NotStarted
  /\ gum = "idle"
  /\ stream = "none"
  /\ mediaError = FALSE
  /\ recorderState = "none"
  /\ recEvents = "none"
  /\ startReq = "none"
  /\ uploadIdRef = FALSE
  /\ recordedChunksRef = <<>>
  /\ pendingChunksRef = <<>>
  /\ partNumberRef = 1
  /\ uploadingRef = FALSE
  /\ uploadedPartsRef = <<>>
  /\ partUpload = NoPart
  /\ finalUpload = NoPart
  /\ wsState = "none"
  /\ socketReady = FALSE
  /\ wsSent = <<>>
  /\ autoEndRef = FALSE
  /\ negotiationCompleteRef = FALSE
  /\ sessionDataStoredRef = FALSE
  /\ sessionDataStoredResolveRef = 0
  /\ waiters = {}
  /\ showTimers = 0
  /\ ttsEndTimerRef = FALSE
  /\ showVisibilityDialog = FALSE
  /\ isProcessingPostMortem = FALSE
  /\ flows = <<>>
  /\ completeRequests = <<>>
  /\ navigated = "no"
  /\ endClicks = 0
  /\ waitElapsed = FALSE
  /\ unGated = FALSE
  /\ dialogShown = FALSE
  /\ rejected = [kind |-> "none", flip |-> FALSE]
  /\ canvasAnimationRef = FALSE
  /\ recordingAudioContextRef = "none"
  /\ inputContextRef = "none"
  /\ mounted = TRUE
  /\ now = StartTime
  /\ ttsContextRef = FALSE
  /\ ttsQueueEndRef = 0
  /\ ttsSourcesRef = <<>>
  /\ ttsAudio = <<>>
  /\ ttsStartTimeRef = 0
  /\ isTtsPlayingRef = FALSE
  /\ speechFrameCountRef = 0
  /\ lastBargeInRef = 0
  /\ isMuted = FALSE
  /\ processorMuted = FALSE
  /\ lastFrame = NoFrame
  /\ utterance = 0
  /\ speechRun = 0
  /\ bargeIns = <<>>
  /\ ttsEndTimerFor = 0
  /\ frameDue = FALSE
  /\ connections = 0

Init == CallInit /\ dsp = NoDsp

(***************************************************************************)
(* Chunked upload pipeline                                                 *)
(***************************************************************************)

\* The refs uploadAccumulatedChunks reads and writes, as one record.
\* failed is the part whose catch block is running, NoPart otherwise.
UploadRefs == [uploadingRef |-> uploadingRef, pendingChunksRef |-> pendingChunksRef,
               partNumberRef |-> partNumberRef, partUpload |-> partUpload,
               failed |-> NoPart]

\* uploadAccumulatedChunks that seals whatever is pending, whatever its size
uploadAccumulatedChunks_anySize(r, sizes) ==
  IF r.uploadingRef \/ ~uploadIdRef \/ ~sessionId
  THEN r
  ELSE IF r.pendingChunksRef = <<>>
  THEN r
  ELSE [uploadingRef |-> TRUE,
        pendingChunksRef |-> <<>>,
        partNumberRef |-> r.partNumberRef + 1,
        partUpload |-> [part_number |-> r.partNumberRef,
                        chunks |-> r.pendingChunksRef,
                        first |-> IF r.failed = NoPart THEN r.pendingChunksRef
                                  ELSE r.failed.first,
                        retried |-> r.failed # NoPart,
                        attempts |-> r.failed.attempts + 1],
        failed |-> NoPart]

\* uploadAccumulatedChunks up to its first await: seal the pending buffer as
\* the next part when it is large enough and no proactive upload runs.
uploadAccumulatedChunks(r, sizes) ==
  IF r.uploadingRef \/ ~uploadIdRef \/ ~sessionId
  THEN r
  ELSE IF totalSize(sizes, r.pendingChunksRef) < MIN_PART_SIZE
  THEN r
  ELSE [uploadingRef |-> TRUE,
        pendingChunksRef |-> <<>>,
        partNumberRef |-> r.partNumberRef + 1,
        partUpload |-> [part_number |-> r.partNumberRef,
                        chunks |-> r.pendingChunksRef,
                        first |-> IF r.failed = NoPart THEN r.pendingChunksRef
                                  ELSE r.failed.first,
                        retried |-> r.failed # NoPart,
                        attempts |-> r.failed.attempts + 1],
        failed |-> NoPart]

\* the re-check at the end of uploadAccumulatedChunks
recheck(r, sizes) ==
  IF totalSize(sizes, r.pendingChunksRef) >= MIN_PART_SIZE
  THEN uploadAccumulatedChunks(r, sizes)
  ELSE r

SetUploadRefs(r) ==
  /\ uploadingRef' = r.uploadingRef
  /\ pendingChunksRef' = r.pendingChunksRef
  /\ partNumberRef' = r.partNumberRef
  /\ partUpload' = r.partUpload

\* mediaRecorder.ondataavailable with event.data.size = size
ondataavailable(size) ==
  IF size > 0
  THEN /\ recordedChunksRef' = Append(recordedChunksRef, size)
       /\ SetUploadRefs(uploadAccumulatedChunks(
            [UploadRefs EXCEPT !.pendingChunksRef =
               Append(pendingChunksRef, Len(recordedChunksRef) + 1)],
            Append(recordedChunksRef, size)))
  ELSE UNCHANGED <<recordedChunksRef, uploadingRef, pendingChunksRef, partNumberRef, partUpload>>

\* a periodic segment while the recorder runs (mediaRecorder.start(1000)),
\* its size one of sizes
SegmentOf(sizes, max) ==
  /\ recorderState = "recording"
  /\ Len(recordedChunksRef) < max
  /\ \E size \in sizes : ondataavailable(size)
  /\ UNCHANGED <<ttsVars, resourceVars, sessionId, dsp, connections, phase, callStartedAt, startReq, uploadIdRef, uploadedPartsRef,
                 finalUpload, captureVars, socketVars, endVars, finishVars, histVars>>

Segment(max) == SegmentOf(SegSizes, max)

\* the last dataavailable event MediaRecorder.stop() queues before the stop
\* event, empty or of one of sizes
FlushOf(sizes, max) ==
  /\ recEvents = "flush"
  /\ \E size \in {0} \cup sizes :
       /\ size > 0 => Len(recordedChunksRef) < max
       /\ ondataavailable(size)
  /\ recEvents' = "stop"
  /\ UNCHANGED <<ttsVars, resourceVars, sessionId, dsp, connections, phase, callStartedAt, startReq, uploadIdRef, uploadedPartsRef,
                 finalUpload, gum, stream, mediaError, recorderState,
                 socketVars, endVars, finishVars, histVars>>

Flush(max) == FlushOf(SegSizes, max)

\* startMultipartUpload(...).then / .catch
StartUploadResolves ==
  /\ startReq = "pending"
  /\ startReq' = "done"
  /\ \E ok \in BOOLEAN : uploadIdRef' = ok
  /\ UNCHANGED <<ttsVars, resourceVars, sessionId, dsp, connections, phase, callStartedAt, recordedChunksRef, pendingChunksRef,
                 partNumberRef, uploadingRef, uploadedPartsRef, partUpload, finalUpload,
                 captureVars, socketVars, endVars, finishVars, histVars>>

\* uploadAccumulatedChunks after its awaits, both requests succeeded
PartUploadSucceeds ==
  /\ partUpload # NoPart
  /\ uploadedPartsRef' = Append(uploadedPartsRef, [partUpload EXCEPT !.attempts = 0])
  /\ SetUploadRefs(recheck([UploadRefs EXCEPT !.uploadingRef = FALSE, !.partUpload = NoPart],
                           recordedChunksRef))
  /\ UNCHANGED <<ttsVars, resourceVars, sessionId, dsp, connections, phase, callStartedAt, startReq, uploadIdRef, recordedChunksRef,
                 finalUpload, captureVars, socketVars, endVars, finishVars, histVars>>

\* the catch block of uploadAccumulatedChunks: put the chunks back, reuse the number
putBack(r) ==
  [r EXCEPT !.pendingChunksRef = r.partUpload.chunks \o r.pendingChunksRef,
            !.partNumberRef = r.partUpload.part_number,
            !.uploadingRef = FALSE,
            !.failed = r.partUpload,
            !.partUpload = NoPart]

\* uploadAccumulatedChunks after its awaits, getPartUploadUrl or uploadPart threw
PartUploadFails ==
  /\ partUpload # NoPart
  /\ partUpload.attempts < MaxPartAttempts
  /\ SetUploadRefs(recheck(putBack(UploadRefs), recordedChunksRef))
  /\ UNCHANGED <<ttsVars, resourceVars, sessionId, dsp, connections, phase, callStartedAt, startReq, uploadIdRef, recordedChunksRef,
                 uploadedPartsRef, finalUpload, captureVars, socketVars, endVars,
                 finishVars, histVars>>

\* the part mediaRecorder.onstop uploads: everything pending, under the current number
finalPart ==
  IF ~uploadIdRef \/ ~sessionId \/ pendingChunksRef = <<>>
  THEN NoPart
  ELSE [part_number |-> partNumberRef, chunks |-> pendingChunksRef,
        first |-> pendingChunksRef, retried |-> FALSE, attempts |-> 1]

\* mediaRecorder.onstop up to its first await
onstop ==
  /\ recEvents = "stop"
  /\ recEvents' = "done"
  /\ finalUpload' = finalPart
  /\ UNCHANGED <<ttsVars, resourceVars, sessionId, dsp, connections, phase, callStartedAt, startReq, uploadIdRef, recordedChunksRef,
                 pendingChunksRef, partNumberRef, uploadingRef, uploadedPartsRef, partUpload,
                 gum, stream, mediaError, recorderState, socketVars, endVars, finishVars,
                 histVars>>

\* mediaRecorder.onstop after its awaits, the final part was stored
FinalUploadSucceeds ==
  /\ finalUpload # NoPart
  /\ uploadedPartsRef' = Append(uploadedPartsRef, [finalUpload EXCEPT !.attempts = 0])
  /\ finalUpload' = NoPart
  /\ UNCHANGED <<ttsVars, resourceVars, sessionId, dsp, connections, phase, callStartedAt, startReq, uploadIdRef, recordedChunksRef,
                 pendingChunksRef, partNumberRef, uploadingRef, partUpload,
                 captureVars, socketVars, endVars, finishVars, histVars>>

\* mediaRecorder.onstop after its awaits, the catch block (logs only)
FinalUploadFails ==
  /\ finalUpload # NoPart
  /\ finalUpload' = NoPart
  /\ UNCHANGED <<ttsVars, resourceVars, sessionId, dsp, connections, phase, callStartedAt, startReq, uploadIdRef, recordedChunksRef,
                 pendingChunksRef, partNumberRef, uploadingRef, uploadedPartsRef, partUpload,
                 captureVars, socketVars, endVars, finishVars, histVars>>


(***************************************************************************)
(* Capture, recorder and socket                                            *)
(***************************************************************************)

\* closing an audio context that exists
closed(graph) == IF graph = "open" THEN "closed" ELSE graph

\* the uplink effect, run when stream, socketReady or phase has changed: its
\* cleanup closes the graph it had built, then it builds a new one if there is
\* a stream and the socket is ready and open
uplinkEffect(stream_, socketReady_, phase_, wsState_) ==
  IF mounted /\ stream_ # "none" /\ socketReady_ /\ phase_ = "call" /\ wsState_ = "open"
  THEN "open"
  ELSE closed(inputContextRef)

\* mediaRecorder.stop() when the recorder is not inactive
Max(a, b) == IF a >= b THEN a ELSE b

\* source.stop() / context.close(): the source is audible no longer
stopped(source) ==
  [source EXCEPT !.stop = IF now < source.stop THEN Max(now, source.start) ELSE source.stop]

stoppedRecorder == IF recorderState = "recording" THEN "inactive" ELSE recorderState
stoppedEvents == IF recorderState = "recording" THEN "flush" ELSE recEvents

\* timer effect of NegotiationProvider: notes time is up
NotesTimeout ==
  /\ sessionId
  /\ phase = "notes"
  /\ phase' = "ready"
  /\ UNCHANGED <<ttsVars, resourceVars, sessionId, dsp, connections, callStartedAt, uploadVars, captureVars, socketVars, endVars,
                 finishVars, histVars>>

\* start buttons that are on every screen
startCallOffered_always == TRUE

\* the buttons that call startCall are on the note-taking screen, which is
\* rendered in the phases notes and ready only
startCallOffered == phase \in {"notes", "ready"}

\* startCall, followed by the effects that depend on phase:
\* startCapture is called and the socket is opened
startCall ==
  /\ startCallOffered
  /\ phase' = "call"
  /\ gum' = "pending"
  /\ IF sessionId
     THEN /\ wsState' = "connecting"
          /\ negotiationCompleteRef' = FALSE
          /\ sessionDataStoredRef' = FALSE
          /\ sessionDataStoredResolveRef' = 0
     ELSE UNCHANGED <<wsState, negotiationCompleteRef, sessionDataStoredRef,
                      sessionDataStoredResolveRef>>
  /\ socketReady' = FALSE
  /\ connections' = IF sessionId THEN connections + 1 ELSE connections
  /\ UNCHANGED <<ttsVars, resourceVars, sessionId, dsp, callStartedAt, uploadVars, stream, mediaError, recorderState,
                 recEvents, wsSent, autoEndRef, waiters, showTimers, ttsEndTimerRef,
                 finishVars, histVars>>

\* how the recorder setup inside the inner try ends: it does not throw ("ok"),
\* or it throws before the recording graph exists (MediaRecorder undefined,
\* AudioContext constructor), in captureStream or the MediaRecorder constructor
\* (graph built, draw loop started), or in mediaRecorder.start (recorder
\* created, upload handle requested)
Setups == {"ok", "noGraph", "noRecorder", "noStart"}

\* startCapture after getUserMedia settles.  granted: permission given;
\* setup: how the recorder setup inside the inner try ends.
startCapture(granted, setup) ==
  IF ~granted
  THEN /\ mediaError' = TRUE
       /\ UNCHANGED <<stream, recorderState, startReq, recordedChunksRef, pendingChunksRef,
                      uploadedPartsRef, partNumberRef, uploadingRef, canvasAnimationRef,
                      recordingAudioContextRef, inputContextRef>>
  ELSE IF ~mounted \/ phase # "call"
  THEN \* active is false: the tracks are stopped at once
       /\ stream' = "stopped"
       /\ UNCHANGED <<mediaError, recorderState, startReq, recordedChunksRef,
                      pendingChunksRef, uploadedPartsRef, partNumberRef, uploadingRef,
                      canvasAnimationRef, recordingAudioContextRef, inputContextRef>>
  ELSE /\ stream' = "live"
       \* the recording graph and the draw loop are set up before the recorder
       /\ recordingAudioContextRef' = IF setup = "noGraph" THEN recordingAudioContextRef
                                      ELSE "open"
       /\ canvasAnimationRef' = IF setup = "noGraph" THEN canvasAnimationRef ELSE TRUE
       /\ inputContextRef' = uplinkEffect("live", socketReady, phase, wsState)
       /\ IF setup \in {"ok", "noStart"}
          THEN /\ recorderState' = IF setup = "ok" THEN "recording" ELSE "inactive"
               /\ recordedChunksRef' = <<>>
               /\ pendingChunksRef' = <<>>
               /\ uploadedPartsRef' = <<>>
               /\ partNumberRef' = 1
               /\ uploadingRef' = FALSE
               /\ startReq' = IF sessionId THEN "pending" ELSE startReq
          ELSE UNCHANGED <<recorderState, startReq, recordedChunksRef, pendingChunksRef,
                           uploadedPartsRef, partNumberRef, uploadingRef>>
       /\ UNCHANGED mediaError

GetUserMediaSettlesOf(setups) ==
  /\ gum = "pending"
  /\ gum' = "done"
  /\ \E granted \in BOOLEAN, setup \in setups : startCapture(granted, setup)
  /\ UNCHANGED <<ttsVars, mounted, sessionId, dsp, connections, phase, callStartedAt, uploadIdRef, partUpload, finalUpload,
                 recEvents, socketVars, endVars, finishVars, histVars>>

\* getUserMedia settles; the recorder setup works or the MediaRecorder
\* constructor throws
GetUserMediaSettles == GetUserMediaSettlesOf({"ok", "noRecorder"})

\* markCallStarted: prev.callStartedAt ? prev : {...prev, callStartedAt: Date.now()}
markCallStarted == IF callStartedAt # NotStarted THEN callStartedAt ELSE now

\* a call-started effect that stamps the time whenever the socket is ready
callStartedEffect_restamps(ready) ==
  IF phase = "call" /\ ready THEN now ELSE callStartedAt

\* the effect that follows a render with this socketReady:
\* if (phase === "call" && socketReady && !callStartedAt) markCallStarted()
callStartedEffect(ready) ==
  IF phase = "call" /\ ready /\ callStartedAt = NotStarted
  THEN markCallStarted
  ELSE callStartedAt

\* ws.onopen that sends nothing
WsOpen_noInitialize ==
  /\ wsState = "connecting"
  /\ wsState' = "open"
  /\ wsSent' = wsSent
  /\ socketReady' = TRUE
  /\ callStartedAt' = callStartedEffect(TRUE)
  /\ inputContextRef' = uplinkEffect(stream, TRUE, phase, "open")
  /\ UNCHANGED <<ttsVars, canvasAnimationRef, recordingAudioContextRef, mounted, sessionId, dsp, connections, phase, uploadVars, captureVars, endVars, finishVars, histVars>>

\* ws.onopen, with the markCallStarted effect that follows socketReady
WsOpen ==
  /\ wsState = "connecting"
  /\ wsState' = "open"
  /\ wsSent' = Append(wsSent, "initialize")
  /\ socketReady' = TRUE
  /\ callStartedAt' = callStartedEffect(TRUE)
  /\ inputContextRef' = uplinkEffect(stream, TRUE, phase, "open")
  /\ UNCHANGED <<ttsVars, canvasAnimationRef, recordingAudioContextRef, mounted, sessionId, dsp, connections, phase, uploadVars, captureVars, endVars, finishVars, histVars>>

\* the server starts the closing handshake
WsClosing ==
  /\ wsState = "open"
  /\ wsState' = "closing"
  /\ UNCHANGED <<ttsVars, resourceVars, sessionId, dsp, connections, phase, callStartedAt, uploadVars, captureVars, socketReady,
                 wsSent, endVars, finishVars, histVars>>

\* ws.onclose / ws.onerror that also stop the recorder
WsClosed_stopsRecorder ==
  /\ wsState \in {"connecting", "open", "closing"}
  /\ wsState' = "closed"
  /\ socketReady' = FALSE
  /\ inputContextRef' = uplinkEffect(stream, FALSE, phase, "closed")
  /\ recorderState' = stoppedRecorder
  /\ recEvents' = stoppedEvents
  /\ UNCHANGED <<ttsVars, canvasAnimationRef, recordingAudioContextRef, mounted, sessionId, dsp, connections, phase,
                 callStartedAt, uploadVars, gum, stream, mediaError, wsSent,
                 endVars, finishVars, histVars>>

\* ws.onclose / ws.onerror
WsClosed ==
  /\ wsState \in {"connecting", "open", "closing"}
  /\ wsState' = "closed"
  /\ socketReady' = FALSE
  /\ inputContextRef' = uplinkEffect(stream, FALSE, phase, "closed")
  /\ UNCHANGED <<ttsVars, canvasAnimationRef, recordingAudioContextRef, mounted, sessionId, dsp, connections, phase, callStartedAt, uploadVars, captureVars, wsSent,
                 endVars, finishVars, histVars>>

(***************************************************************************)
(* Ending the session                                                      *)
(***************************************************************************)

\* waitForSessionDataStored that never waits
waitForSessionDataStored_noWait ==
  IF sessionDataStoredRef THEN "true" ELSE "false"

\* waitForSessionDataStored: what the returned promise does
waitForSessionDataStored ==
  IF sessionDataStoredRef THEN "true"
  ELSE IF wsState # "open" THEN "false"
  ELSE "pending"

\* ws.onmessage, data.type = "negotiation_complete"
NegotiationComplete ==
  /\ wsState = "open"
  /\ negotiationCompleteRef' = TRUE
  /\ sessionDataStoredRef' = TRUE
  /\ IF sessionDataStoredResolveRef # 0
     THEN \* the stored resolver clears its timer and resolves the wait
          /\ waiters' = waiters \ {sessionDataStoredResolveRef}
          /\ sessionDataStoredResolveRef' = 0
          /\ showTimers' = showTimers + 1
     ELSE UNCHANGED <<waiters, sessionDataStoredResolveRef, showTimers>>
  /\ UNCHANGED <<ttsVars, resourceVars, sessionId, dsp, connections, phase, callStartedAt, uploadVars, captureVars, socketVars,
                 autoEndRef, ttsEndTimerRef, finishVars, histVars>>

\* the timer inside waitForSessionDataStored (timeoutMs = 10000)
WaitTimeout(w) ==
  /\ w \in waiters
  /\ waiters' = waiters \ {w}
  /\ sessionDataStoredResolveRef' =
       IF sessionDataStoredResolveRef = w THEN 0 ELSE sessionDataStoredResolveRef
  /\ showTimers' = showTimers + 1
  /\ waitElapsed' = TRUE
  /\ UNCHANGED <<ttsVars, resourceVars, sessionId, dsp, connections, phase, callStartedAt, uploadVars, captureVars, socketVars,
                 autoEndRef, negotiationCompleteRef, sessionDataStoredRef, ttsEndTimerRef,
                 finishVars, endClicks, unGated, dialogShown, rejected>>

\* handleEndSession (the end button of CallControls, shown in the call phase)
handleEndSession ==
  /\ phase = "call"
  /\ ~showVisibilityDialog /\ ~isProcessingPostMortem /\ navigated = "no"
  /\ endClicks < MaxEndClicks
  /\ endClicks' = endClicks + 1
  /\ autoEndRef' = TRUE
  /\ stream' = IF stream = "live" THEN "stopped" ELSE stream
  /\ recorderState' = stoppedRecorder
  /\ recEvents' = stoppedEvents
  /\ IF wsState = "connecting"
     THEN \* WebSocket.send throws InvalidStateError: the handler ends here
          /\ UNCHANGED <<wsSent, waiters, sessionDataStoredResolveRef, showTimers, unGated>>
     ELSE /\ wsSent' = IF wsState = "open" THEN Append(wsSent, "end_negotiation") ELSE wsSent
          /\ unGated' = (unGated \/ (~sessionDataStoredRef /\ wsState # "open"))
          /\ IF waitForSessionDataStored = "pending"
             THEN /\ waiters' = waiters \cup {endClicks + 1}
                  /\ sessionDataStoredResolveRef' = endClicks + 1
                  /\ UNCHANGED showTimers
             ELSE /\ showTimers' = showTimers + 1
                  /\ UNCHANGED <<waiters, sessionDataStoredResolveRef>>
  /\ UNCHANGED <<ttsVars, resourceVars, sessionId, dsp, connections, phase, callStartedAt, uploadVars, gum, mediaError, wsState,
                 socketReady, negotiationCompleteRef, sessionDataStoredRef, ttsEndTimerRef,
                 finishVars, waitElapsed, dialogShown, rejected>>

\* ws.onmessage, data.type = "audio_end": (re)start the idle timer
AudioEnd ==
  /\ wsState = "open"
  /\ ttsEndTimerRef' = TRUE
  /\ ttsEndTimerFor' = utterance
  /\ UNCHANGED <<now, playVars, bargeVars, isTtsPlayingRef>>
  /\ UNCHANGED <<resourceVars, sessionId, dsp, connections, phase, callStartedAt, uploadVars, captureVars, socketVars,
                 autoEndRef, negotiationCompleteRef, sessionDataStoredRef,
                 sessionDataStoredResolveRef, waiters, showTimers, finishVars, histVars>>

\* the idle timer set by audio_end fires
TtsEndTimer ==
  /\ ttsEndTimerRef
  /\ ttsEndTimerRef' = FALSE
  /\ IF negotiationCompleteRef /\ ~autoEndRef
     THEN /\ autoEndRef' = TRUE
          /\ recorderState' = stoppedRecorder
          /\ recEvents' = stoppedEvents
          /\ showTimers' = showTimers + 1
     ELSE UNCHANGED <<autoEndRef, recorderState, recEvents, showTimers>>
  /\ isTtsPlayingRef' = FALSE
  /\ UNCHANGED <<now, playVars, bargeVars, ttsEndTimerFor>>
  /\ UNCHANGED <<resourceVars, sessionId, dsp, connections, phase, callStartedAt, uploadVars, gum, stream, mediaError,
                 socketVars, negotiationCompleteRef, sessionDataStoredRef,
                 sessionDataStoredResolveRef, waiters, finishVars, histVars>>

\* call time is up: phase becomes "ended"; the capture and socket effects are
\* cleaned up and the phase-ended effect runs
CallTimeout ==
  /\ sessionId
  /\ phase = "call" /\ callStartedAt # NotStarted
  /\ phase' = "ended"
  /\ recorderState' = stoppedRecorder
  /\ recEvents' = stoppedEvents
  /\ stream' = IF stream = "live" THEN "stopped" ELSE stream
  /\ wsState' = "none"
  /\ socketReady' = FALSE
  /\ canvasAnimationRef' = FALSE
  /\ recordingAudioContextRef' = closed(recordingAudioContextRef)
  /\ inputContextRef' = closed(inputContextRef)
  /\ IF ~autoEndRef
     THEN /\ autoEndRef' = TRUE
          /\ showTimers' = showTimers + 1
          /\ unGated' = TRUE
     ELSE UNCHANGED <<autoEndRef, showTimers, unGated>>
  /\ UNCHANGED <<ttsVars, mounted, sessionId, dsp, connections, callStartedAt, uploadVars, gum, mediaError, wsSent,
                 negotiationCompleteRef, sessionDataStoredRef, sessionDataStoredResolveRef,
                 waiters, ttsEndTimerRef, finishVars, endClicks, waitElapsed,
                 dialogShown, rejected>>

\* a 500 ms timer: setShowVisibilityDialog(true).  The events a stopped
\* recorder has queued (its last dataavailable, then stop) are dispatched
\* before a timer of 500 ms fires; network requests may take longer.
ShowDialogTimer ==
  /\ showTimers > 0
  /\ recEvents \notin {"flush", "stop"}
  /\ navigated = "no"
  /\ showTimers' = showTimers - 1
  /\ showVisibilityDialog' = TRUE
  /\ dialogShown' = TRUE
  /\ UNCHANGED <<ttsVars, resourceVars, sessionId, dsp, connections, phase, callStartedAt, uploadVars, captureVars, socketVars,
                 autoEndRef, negotiationCompleteRef, sessionDataStoredRef,
                 sessionDataStoredResolveRef, waiters, ttsEndTimerRef,
                 isProcessingPostMortem, flows, completeRequests, navigated,
                 endClicks, waitElapsed, unGated, rejected>>


\* NegotiationClient unmounts: the cleanups of the capture effect, the uplink
\* effect, the socket effect and the TTS effect run
Unmount ==
  /\ mounted
  /\ mounted' = FALSE
  /\ canvasAnimationRef' = FALSE
  /\ recorderState' = stoppedRecorder
  /\ recEvents' = stoppedEvents
  /\ recordingAudioContextRef' = closed(recordingAudioContextRef)
  /\ stream' = IF stream = "live" THEN "stopped" ELSE stream
  /\ inputContextRef' = closed(inputContextRef)
  /\ wsState' = IF sessionId /\ phase = "call" THEN "none" ELSE wsState
  /\ socketReady' = IF sessionId /\ phase = "call" THEN FALSE ELSE socketReady
  /\ ttsEndTimerRef' = FALSE
  /\ ttsContextRef' = FALSE
  /\ ttsAudio' = [i \in 1..Len(ttsAudio) |-> stopped(ttsAudio[i])]
  /\ UNCHANGED <<now, ttsQueueEndRef, ttsSourcesRef, ttsStartTimeRef, utterance, bargeVars,
                 isTtsPlayingRef, ttsEndTimerFor>>
  /\ UNCHANGED <<sessionId, dsp, connections, phase, callStartedAt, uploadVars, gum, mediaError, wsSent,
                 autoEndRef, negotiationCompleteRef, sessionDataStoredRef,
                 sessionDataStoredResolveRef, waiters, showTimers, finishVars, histVars>>

(***************************************************************************)
(* TTS playback and barge-in                                               *)
(***************************************************************************)

\* the clock advances by one audio frame; the uplink graph delivers its frame
\* before the next one is due. The model follows the clock while the socket
\* is open.
Tick(max) ==
  /\ wsState = "open"
  /\ now < StartTime + max * FrameMs
  /\ inputContextRef = "open" => ~frameDue
  /\ now' = now + FrameMs
  /\ frameDue' = TRUE
  /\ lastFrame' = NoFrame
  /\ UNCHANGED <<playVars, speechFrameCountRef, lastBargeInRef, isMuted, processorMuted, speechRun, bargeIns,
                 isTtsPlayingRef, ttsEndTimerFor>>
  /\ UNCHANGED <<resourceVars, sessionId, dsp, connections, phase, callStartedAt, uploadVars, captureVars,
                 socketVars, endVars, finishVars, histVars>>

Min(a, b) == IF a <= b THEN a ELSE b

\* ws.onmessage, data.type = "audio_start"
AudioStart ==
  /\ wsState = "open"
  /\ utterance < MaxUtterances
  /\ isTtsPlayingRef' = TRUE
  /\ ttsStartTimeRef' = now
  /\ ttsSourcesRef' = <<>>
  /\ ttsQueueEndRef' = IF ttsContextRef THEN now ELSE ttsQueueEndRef
  /\ utterance' = utterance + 1
  /\ speechRun' = 0
  /\ UNCHANGED <<now, ttsContextRef, ttsAudio, speechFrameCountRef, lastBargeInRef, isMuted,
                 processorMuted, lastFrame, frameDue, bargeIns, ttsEndTimerFor>>
  /\ UNCHANGED <<resourceVars, sessionId, dsp, connections, phase, callStartedAt, uploadVars, captureVars,
                 socketVars, endVars, finishVars, histVars>>

\* the start time of a chunk, taken from the clock alone
startTime_clockOnly == now

\* startTime of the chunk being scheduled
startTime == Max(now, ttsQueueEndRef)

\* ws.onmessage, data.type = "audio_chunk": a chunk of duration ms, one of at most max
AudioChunk(duration, max) ==
  /\ wsState = "open"
  /\ Len(ttsAudio) < max
  /\ ttsAudio' = Append(ttsAudio, [start |-> startTime, stop |-> startTime + duration,
                                   duration |-> duration, utt |-> utterance])
  /\ ttsQueueEndRef' = startTime + duration
  /\ ttsContextRef' = TRUE
  /\ ttsSourcesRef' = Append(ttsSourcesRef, Len(ttsAudio) + 1)
  /\ UNCHANGED <<now, ttsStartTimeRef, utterance, bargeVars, isTtsPlayingRef,
                 ttsEndTimerFor>>
  /\ UNCHANGED <<resourceVars, sessionId, dsp, connections, phase, callStartedAt, uploadVars, captureVars,
                 socketVars, endVars, finishVars, histVars>>

\* source.onended: a source that has played to its end leaves the tracked list
SourceEnded(i) ==
  /\ i \in SeqRange(ttsSourcesRef)
  /\ ttsAudio[i].stop <= now
  /\ ttsSourcesRef' = SelectSeq(ttsSourcesRef, LAMBDA s : s # i)
  /\ UNCHANGED <<now, ttsContextRef, ttsQueueEndRef, ttsAudio, ttsStartTimeRef, utterance,
                 bargeVars, isTtsPlayingRef, ttsEndTimerFor>>
  /\ UNCHANGED <<resourceVars, sessionId, dsp, connections, phase, callStartedAt, uploadVars, captureVars,
                 socketVars, endVars, finishVars, histVars>>

\* the catch block of ws.onmessage: setMediaError("Received malformed socket message.")
caught(kind) ==
  /\ mediaError' = TRUE
  /\ rejected' = [kind |-> kind, flip |-> ~rejected.flip]

\* ws.onmessage that closes the socket when a message does not parse
MalformedMessage_closes ==
  /\ wsState = "open"
  /\ caught("json")
  /\ wsState' = "closed"
  /\ socketReady' = FALSE
  /\ UNCHANGED <<ttsVars, resourceVars, sessionId, dsp, connections, phase, callStartedAt, uploadVars, gum, stream,
                 recorderState, recEvents, wsSent, endVars, finishVars,
                 endClicks, waitElapsed, unGated, dialogShown>>

\* ws.onmessage, event.data is not JSON: JSON.parse throws
MalformedMessage ==
  /\ wsState = "open"
  /\ caught("json")
  /\ UNCHANGED <<ttsVars, resourceVars, sessionId, dsp, connections, phase, callStartedAt, uploadVars, gum, stream,
                 recorderState, recEvents, socketVars, endVars, finishVars,
                 endClicks, waitElapsed, unGated, dialogShown>>

Throws == -1

\* base64ToArrayBuffer: the byte length of the decoded string; atob throws on
\* a string that is not base64
base64ToArrayBuffer(data) == IF data.base64 THEN data.bytes ELSE Throws

\* pcm16ToFloat32: the number of samples; new Int16Array(buffer) throws on an
\* odd byte length
pcm16ToFloat32(bytes) == IF bytes % 2 = 0 THEN bytes \div 2 ELSE Throws

\* payloads of an audio_chunk that carry no playable audio: not base64, an odd
\* number of bytes, white space only (no bytes)
Undecodable == {[base64 |-> FALSE, bytes |-> 0], [base64 |-> TRUE, bytes |-> 3],
                [base64 |-> TRUE, bytes |-> 0]}

\* audio_chunk handling that starts a new queue when a chunk does not decode
BadAudioChunk_resets ==
  /\ wsState = "open"
  /\ caught("chunk")
  /\ ttsQueueEndRef' = 0
  /\ ttsSourcesRef' = <<>>
  /\ UNCHANGED <<now, ttsContextRef, ttsAudio, ttsStartTimeRef, utterance, bargeVars,
                 isTtsPlayingRef, ttsEndTimerFor>>
  /\ UNCHANGED <<resourceVars, sessionId, dsp, connections, phase, callStartedAt, uploadVars, gum, stream,
                 recorderState, recEvents, socketVars, endVars, finishVars,
                 endClicks, waitElapsed, unGated, dialogShown>>

\* ws.onmessage, data.type = "audio_chunk" with a payload that does not decode:
\* atob or Int16Array throws before anything is touched, createBuffer throws
\* on a length of 0 after the AudioContext has been created
BadAudioChunk ==
  /\ wsState = "open"
  /\ \E data \in Undecodable :
       LET buffer == base64ToArrayBuffer(data)
           pcm == IF buffer = Throws THEN Throws ELSE pcm16ToFloat32(buffer)
       IN  /\ pcm \in {Throws, 0}
           /\ ttsContextRef' = IF pcm = Throws THEN ttsContextRef ELSE TRUE
  /\ caught("chunk")
  /\ UNCHANGED <<now, ttsQueueEndRef, ttsSourcesRef, ttsAudio, ttsStartTimeRef, utterance,
                 bargeVars, isTtsPlayingRef, ttsEndTimerFor>>
  /\ UNCHANGED <<resourceVars, sessionId, dsp, connections, phase, callStartedAt, uploadVars, gum, stream,
                 recorderState, recEvents, socketVars, endVars, finishVars,
                 endClicks, waitElapsed, unGated, dialogShown>>

\* stopTtsPlayback without the test of lastBargeInRef
bargeInAllowed_noDebounce(time) == time - ttsStartTimeRef > 500

\* the two time conditions of a barge-in
bargeInAllowed(time) == time - ttsStartTimeRef > 500 /\ time - lastBargeInRef > 1000

\* stopTtsPlayback that leaves isTtsPlayingRef set
stopTtsPlayback_stillPlaying ==
  /\ ttsAudio' = [i \in 1..Len(ttsAudio) |->
                    IF i \in SeqRange(ttsSourcesRef) THEN stopped(ttsAudio[i]) ELSE ttsAudio[i]]
  /\ ttsSourcesRef' = <<>>
  /\ isTtsPlayingRef' = isTtsPlayingRef
  /\ ttsQueueEndRef' = 0
  /\ ttsEndTimerRef' = FALSE
  /\ wsSent' = IF wsState = "open" THEN Append(wsSent, "barge_in") ELSE wsSent

\* stopTtsPlayback
stopTtsPlayback ==
  /\ ttsAudio' = [i \in 1..Len(ttsAudio) |->
                    IF i \in SeqRange(ttsSourcesRef) THEN stopped(ttsAudio[i]) ELSE ttsAudio[i]]
  /\ ttsSourcesRef' = <<>>
  /\ isTtsPlayingRef' = FALSE
  /\ ttsQueueEndRef' = 0
  /\ ttsEndTimerRef' = FALSE
  /\ wsSent' = IF wsState = "open" THEN Append(wsSent, "barge_in") ELSE wsSent

\* processor.onaudioprocess: one frame of microphone audio, loud when its RMS
\* is above speechThreshold; the source node of a stream whose tracks have been
\* stopped delivers silence
onaudioprocess(loud) ==
  /\ inputContextRef = "open"
  /\ frameDue
  /\ loud => stream = "live"
  /\ frameDue' = FALSE
  /\ LET skipped == wsState # "open" \/ processorMuted
         speech == isTtsPlayingRef /\ loud
         count == IF speech THEN speechFrameCountRef + 1 ELSE 0
         fire == isTtsPlayingRef /\ count >= 3 /\ bargeInAllowed(now)
     IN /\ speechRun' = IF ~skipped /\ speech THEN Min(speechRun + 1, 3) ELSE 0
        /\ lastFrame' = [loud |-> loud, sent |-> ~skipped]
        /\ IF skipped
           THEN UNCHANGED <<speechFrameCountRef, lastBargeInRef, bargeIns, ttsAudio,
                            ttsSourcesRef, isTtsPlayingRef, ttsQueueEndRef, ttsEndTimerRef,
                            wsSent>>
           ELSE /\ speechFrameCountRef' = IF isTtsPlayingRef /\ count >= 3 THEN 0 ELSE count
                /\ IF fire
                   THEN /\ lastBargeInRef' = now
                        /\ stopTtsPlayback
                        /\ bargeIns' = Append(bargeIns, [at |-> now, run |-> speechRun',
                                                         start |-> ttsStartTimeRef,
                                                         utt |-> utterance])
                   ELSE UNCHANGED <<lastBargeInRef, bargeIns, ttsAudio, ttsSourcesRef,
                                    isTtsPlayingRef, ttsQueueEndRef, ttsEndTimerRef,
                                    wsSent>>
  /\ UNCHANGED <<now, ttsContextRef, ttsStartTimeRef, utterance, isMuted, processorMuted,
                 ttsEndTimerFor>>
  /\ UNCHANGED <<resourceVars, sessionId, dsp, connections, phase, callStartedAt, uploadVars, captureVars,
                 wsState, socketReady, autoEndRef, negotiationCompleteRef,
                 sessionDataStoredRef, sessionDataStoredResolveRef, waiters, showTimers,
                 finishVars, histVars>>

\* the uplink effect does not run again: onaudioprocess keeps the old isMuted
rebuiltMuted_stale == processorMuted

\* the isMuted value onaudioprocess captures when the uplink effect runs again
\* after a toggle
rebuiltMuted == ~isMuted

\* onMutedChange: the mute button; the uplink effect runs again
ToggleMute ==
  /\ mounted
  /\ phase = "call"
  /\ isMuted' = ~isMuted
  /\ processorMuted' = rebuiltMuted
  /\ inputContextRef' = uplinkEffect(stream, socketReady, phase, wsState)
  /\ UNCHANGED <<now, playVars, speechFrameCountRef, lastBargeInRef, lastFrame, frameDue, speechRun, bargeIns,
                 isTtsPlayingRef, ttsEndTimerFor>>
  /\ UNCHANGED <<canvasAnimationRef, recordingAudioContextRef, mounted, sessionId, dsp, connections, phase,
                 callStartedAt, uploadVars, captureVars, socketVars, endVars, finishVars,
                 histVars>>

(***************************************************************************)
(* After the visibility choice                                             *)
(***************************************************************************)

RECURSIVE ChunksOf(_)
\* all segment ids in a list of parts, in list order
ChunksOf(parts) ==
  IF parts = <<>> THEN <<>> ELSE Head(parts).chunks \o ChunksOf(Tail(parts))

PartNumbers(parts) == [i \in 1..Len(parts) |-> parts[i].part_number]

\* a completion call that ignores the choice
CompleteCall_private(isPublic) ==
  [parts |-> PartNumbers(uploadedPartsRef),
   isPublic |-> FALSE,
   inFlight |-> (partUpload # NoPart \/ finalUpload # NoPart),
   allUploaded |-> (1..Len(recordedChunksRef)) \subseteq SeqRange(ChunksOf(uploadedPartsRef))]

\* the completeMultipartUpload call of handleVisibilitySelect, with what the
\* pipeline was doing when it was made
CompleteCall(isPublic) ==
  [parts |-> PartNumbers(uploadedPartsRef),
   isPublic |-> isPublic,
   inFlight |-> (partUpload # NoPart \/ finalUpload # NoPart),
   allUploaded |-> (1..Len(recordedChunksRef)) \subseteq SeqRange(ChunksOf(uploadedPartsRef))]

\* requestPostMortemWithRetry up to the first await of requestPostMortem
requestPostMortemWithRetry(f) ==
  [f EXCEPT !.pc = "postmortem", !.attempt = 0, !.requests = 1]

\* a test for completion that looks at the upload handle alone
hasParts_handleOnly == uploadIdRef

\* uploadIdRef.current && uploadedPartsRef.current.length > 0
hasParts == uploadIdRef /\ Len(uploadedPartsRef) > 0

\* handleVisibilitySelect(isPublic) up to its first await
handleVisibilitySelect(isPublic) ==
  /\ showVisibilityDialog
  /\ navigated = "no"
  /\ showVisibilityDialog' = FALSE
  /\ isProcessingPostMortem' = TRUE
  /\ LET f == [pc |-> "start", isPublic |-> isPublic, attempt |-> 0, requests |-> 0] IN
     IF ~sessionId
     THEN /\ navigated' = "dashboard"
          /\ flows' = Append(flows, [f EXCEPT !.pc = "done"])
          /\ UNCHANGED completeRequests
     ELSE IF hasParts
     THEN /\ completeRequests' = Append(completeRequests, CompleteCall(isPublic))
          /\ flows' = Append(flows, [f EXCEPT !.pc = "completing"])
          /\ UNCHANGED navigated
     ELSE /\ flows' = Append(flows, requestPostMortemWithRetry(f))
          /\ UNCHANGED <<completeRequests, navigated>>
  /\ UNCHANGED <<ttsVars, resourceVars, sessionId, dsp, connections, phase, callStartedAt, uploadVars, captureVars, socketVars,
                 endVars, histVars>>

VisibilitySelect == \E isPublic \in BOOLEAN : handleVisibilitySelect(isPublic)

\* an outer catch that only logs
outerCatch_stay == "no"

\* the outer catch of handleVisibilitySelect: router.push to the post-mortem page
outerCatch == "postmortem"

\* completeMultipartUpload settles: result "url" (video_url set), "nourl", or "error"
CompleteSettles(i) ==
  /\ i \in 1..Len(flows)
  /\ flows[i].pc = "completing"
  /\ \E result \in {"url", "nourl", "error"} :
       CASE result = "url" ->
              /\ flows' = [flows EXCEPT ![i].pc = "linking"]
              /\ UNCHANGED navigated
         [] result = "nourl" ->
              /\ flows' = [flows EXCEPT ![i] = requestPostMortemWithRetry(@)]
              /\ UNCHANGED navigated
         [] OTHER ->
              /\ flows' = [flows EXCEPT ![i].pc = "done"]
              /\ navigated' = outerCatch
  /\ UNCHANGED <<ttsVars, resourceVars, sessionId, dsp, connections, phase, callStartedAt, uploadVars, captureVars, socketVars,
                 endVars, showVisibilityDialog, isProcessingPostMortem, completeRequests,
                 histVars>>

\* updatePostMortemVideoUrl settles; a failure is caught and only logged
LinkSettles(i) ==
  /\ i \in 1..Len(flows)
  /\ flows[i].pc = "linking"
  /\ flows' = [flows EXCEPT ![i] = requestPostMortemWithRetry(@)]
  /\ UNCHANGED <<ttsVars, resourceVars, sessionId, dsp, connections, phase, callStartedAt, uploadVars, captureVars, socketVars,
                 endVars, showVisibilityDialog, isProcessingPostMortem, completeRequests,
                 navigated, histVars>>

\* the loop of requestPostMortemWithRetry after a failed request:
\* wait and try again while attempt < attempts - 1, else throw lastError
afterPostMortemError(f) ==
  IF f.attempt < PostMortemAttempts - 1
  THEN [f EXCEPT !.pc = "pmDelay"]
  ELSE [f EXCEPT !.pc = "done"]

\* requestPostMortem settles
PostMortemSettles(i) ==
  /\ i \in 1..Len(flows)
  /\ flows[i].pc = "postmortem"
  /\ \E ok \in BOOLEAN :
       LET f == IF ok THEN [flows[i] EXCEPT !.pc = "done"]
                ELSE afterPostMortemError(flows[i]) IN
       /\ flows' = [flows EXCEPT ![i] = f]
       \* with the analysis done, or all attempts failed (caught), router.push
       /\ navigated' = IF f.pc = "done" THEN "postmortem" ELSE navigated
  /\ UNCHANGED <<ttsVars, resourceVars, sessionId, dsp, connections, phase, callStartedAt, uploadVars, captureVars, socketVars,
                 endVars, showVisibilityDialog, isProcessingPostMortem, completeRequests,
                 histVars>>

\* the back-off timer of requestPostMortemWithRetry: next attempt
PostMortemRetry(i) ==
  /\ i \in 1..Len(flows)
  /\ flows[i].pc = "pmDelay"
  /\ flows' = [flows EXCEPT ![i].pc = "postmortem", ![i].attempt = @ + 1,
                            ![i].requests = @ + 1]
  /\ UNCHANGED <<ttsVars, resourceVars, sessionId, dsp, connections, phase, callStartedAt, uploadVars, captureVars, socketVars,
                 endVars, showVisibilityDialog, isProcessingPostMortem, completeRequests,
                 navigated, histVars>>

(***************************************************************************)
(* Audio conversion functions                                              *)
(***************************************************************************)

\* Math.round(a / b) for a >= 0 and b > 0: the nearest integer, a half goes up
MathRound(a, b) == (2 * a + b) \div (2 * b)

\* a length taken from the ratio upside down
newLength_scaledUp(length, inputSampleRate, outputSampleRate) ==
  MathRound(length * inputSampleRate, outputSampleRate)

\* ratio = inputSampleRate / outputSampleRate; Math.round(input.length / ratio)
newLength(length, inputSampleRate, outputSampleRate) ==
  MathRound(length * outputSampleRate, inputSampleRate)

\* the while loop of downsampleBuffer from offsetResult on: every output
\* sample is accum / Math.max(count, 1) over the input samples from
\* offsetBuffer up to nextOffsetBuffer, kept as the pair [accum, count]
RECURSIVE averages(_, _, _, _, _)
averages(input, inputSampleRate, outputSampleRate, offsetResult, length) ==
  IF offsetResult >= length
  THEN <<>>
  ELSE LET offsetBuffer == IF offsetResult = 0 THEN 0
                           ELSE MathRound(offsetResult * inputSampleRate, outputSampleRate)
           nextOffsetBuffer == MathRound((offsetResult + 1) * inputSampleRate,
                                         outputSampleRate)
           count == Max(0, Min(nextOffsetBuffer, Len(input)) - offsetBuffer)
           accum == SumSizes(input, [i \in 1..count |-> offsetBuffer + i])
       IN  <<[accum |-> accum, count |-> Max(count, 1)]>>
             \o averages(input, inputSampleRate, outputSampleRate, offsetResult + 1, length)

downsampleBuffer(input, inputSampleRate, outputSampleRate) ==
  IF outputSampleRate = inputSampleRate
  THEN input
  ELSE averages(input, inputSampleRate, outputSampleRate, 0,
                newLength(Len(input), inputSampleRate, outputSampleRate))

\* the value stored in an Int16Array for the number a / b: the fraction is
\* dropped (towards zero), the result wraps into 16 bits
ToInt16(a, b) ==
  LET n == IF a >= 0 THEN a \div b ELSE -((-a) \div b)
      m == n % 65536
  IN  IF m >= 32768 THEN m - 65536 ELSE m

\* a scaling of samples by 0x4000
scaled_15bit(s) == s * 16384

\* s < 0 ? s * 0x8000 : s * 0x7fff, for the sample s / SampleScale
scaled(s) == IF s < 0 THEN s * 32768 ELSE s * 32767

\* floatTo16BitPCM on samples given in units of 1 / SampleScale
floatTo16BitPCM(input) ==
  [i \in 1..Len(input) |->
     LET s == Max(-SampleScale, Min(SampleScale, input[i]))
     IN  ToInt16(scaled(s), SampleScale)]

\* the values pcm16ToFloat32 gives: int16[i] / 32768, kept as a fraction
pcm16ToFloat32Values(int16) ==
  [i \in 1..Len(int16) |-> [num |-> int16[i], den |-> 32768]]

SampleRates == {8000, 16000, 44100, 48000}

\* sample buffers of up to max samples, every sample -1, 0 or 1
RECURSIVE Buffers(_)
Buffers(max) ==
  IF max = 0 THEN {<<>>}
  ELSE Buffers(max - 1) \cup
       {Append(b, v) : b \in {c \in Buffers(max - 1) : Len(c) = max - 1},
                       v \in {-SampleScale, SampleScale}}

\* a call of downsampleBuffer on some buffer and some pair of rates
ResampleInit ==
  /\ CallInit
  /\ dsp \in [fn : {"downsampleBuffer"}, input : Buffers(MaxInputLen),
              inputSampleRate : SampleRates, outputSampleRate : SampleRates,
              output : {<<>>}, done : {FALSE}]

\* the call returns
Resample ==
  /\ dsp.fn = "downsampleBuffer"
  /\ ~dsp.done
  /\ dsp' = [dsp EXCEPT !.done = TRUE,
                         !.output = downsampleBuffer(dsp.input, dsp.inputSampleRate,
                                                     dsp.outputSampleRate)]
  /\ UNCHANGED <<sessionId, connections, phase, callStartedAt, uploadVars, captureVars, socketVars,
                 endVars, finishVars, histVars, resourceVars, ttsVars>>

ResampleSpec == ResampleInit /\ [][Resample]_vars

\* a call of floatTo16BitPCM on one sample of [-1, 1], and of pcm16ToFloat32
\* on what it returns
PcmInit ==
  /\ CallInit
  /\ dsp \in [fn : {"floatTo16BitPCM"}, input : {<<s>> : s \in -SampleScale..SampleScale},
              inputSampleRate : {0}, outputSampleRate : {0},
              output : {<<>>}, done : {FALSE}]

\* the two calls return
EncodeDecode ==
  /\ dsp.fn = "floatTo16BitPCM"
  /\ ~dsp.done
  /\ dsp' = [dsp EXCEPT !.done = TRUE,
                         !.output = pcm16ToFloat32Values(floatTo16BitPCM(dsp.input))]
  /\ UNCHANGED <<sessionId, connections, phase, callStartedAt, uploadVars, captureVars, socketVars,
                 endVars, finishVars, histVars, resourceVars, ttsVars>>

PcmSpec == PcmInit /\ [][EncodeDecode]_vars

(***************************************************************************)
(* Specification                                                           *)
(***************************************************************************)

\* The upload pipeline with the events that stop the recorder.
UploadNext ==
  \/ startCall
  \/ GetUserMediaSettles
  \/ WsOpen
  \/ StartUploadResolves
  \/ Segment(MaxSegs)
  \/ Flush(MaxSegs)
  \/ PartUploadSucceeds
  \/ PartUploadFails
  \/ onstop
  \/ FinalUploadSucceeds
  \/ FinalUploadFails
  \/ handleEndSession
  \/ CallTimeout

UploadSpec == Init /\ [][UploadNext]_vars

\* The call page from the start of the call to the request that completes the
\* upload, with a short recording; the end button is pressed only in a session
\* that is not ending yet.
Next ==
  \/ NotesTimeout
  \/ startCall
  \/ GetUserMediaSettles
  \/ WsOpen
  \/ WsClosing
  \/ WsClosed
  \/ StartUploadResolves
  \/ Segment(MaxEndSegs)
  \/ Flush(MaxEndSegs)
  \/ PartUploadSucceeds
  \/ PartUploadFails
  \/ onstop
  \/ FinalUploadSucceeds
  \/ FinalUploadFails
  \/ NegotiationComplete
  \/ AudioEnd
  \/ TtsEndTimer
  \/ (~autoEndRef /\ handleEndSession)
  \/ \E w \in 1..MaxEndClicks : WaitTimeout(w)
  \/ CallTimeout
  \/ ShowDialogTimer
  \/ VisibilitySelect
  \/ \E i \in 1..Len(flows) : CompleteSettles(i)
  \/ \E i \in 1..Len(flows) : LinkSettles(i)

Spec == Init /\ [][Next]_vars

\* The ways a session ends, up to the visibility choice: socket, end button,
\* timers.  Nothing is recorded (getUserMedia stays unanswered).
EndNext ==
  \/ NotesTimeout
  \/ startCall
  \/ WsOpen
  \/ WsClosing
  \/ WsClosed
  \/ NegotiationComplete
  \/ AudioEnd
  \/ TtsEndTimer
  \/ handleEndSession
  \/ \E w \in 1..MaxEndClicks : WaitTimeout(w)
  \/ CallTimeout
  \/ ShowDialogTimer
  \/ VisibilitySelect

EndSpec == Init /\ [][EndNext]_vars

\* A timer that has been set fires.
FairEndSpec ==
  /\ EndSpec
  /\ WF_vars(\E w \in 1..MaxEndClicks : WaitTimeout(w))
  /\ WF_vars(ShowDialogTimer)
  /\ WF_vars(TtsEndTimer)

\* From the end button to the navigation away from the page.
FinishNext ==
  \/ startCall
  \/ GetUserMediaSettles
  \/ WsClosed
  \/ StartUploadResolves
  \/ Segment(MaxEndSegs)
  \/ Flush(MaxEndSegs)
  \/ PartUploadSucceeds
  \/ PartUploadFails
  \/ onstop
  \/ FinalUploadSucceeds
  \/ FinalUploadFails
  \/ (~autoEndRef /\ handleEndSession)
  \/ ShowDialogTimer
  \/ VisibilitySelect
  \/ \E i \in 1..Len(flows) : CompleteSettles(i)
  \/ \E i \in 1..Len(flows) : LinkSettles(i)
  \/ \E i \in 1..Len(flows) : PostMortemSettles(i)
  \/ \E i \in 1..Len(flows) : PostMortemRetry(i)

\* Every request settles and every back-off timer fires.
FinishSpec ==
  /\ Init /\ [][FinishNext]_vars
  /\ WF_vars(\E i \in 1..Len(flows) : CompleteSettles(i))
  /\ WF_vars(\E i \in 1..Len(flows) : LinkSettles(i))
  /\ WF_vars(\E i \in 1..Len(flows) : PostMortemSettles(i))
  /\ WF_vars(\E i \in 1..Len(flows) : PostMortemRetry(i))

\* The ways the page lets go of the camera, the microphone, the recorder and
\* the audio graphs.
TeardownNext ==
  \/ startCall
  \/ GetUserMediaSettles
  \/ WsOpen
  \/ WsClosed
  \/ NegotiationComplete
  \/ AudioEnd
  \/ TtsEndTimer
  \/ (mounted /\ handleEndSession)
  \/ \E w \in 1..MaxEndClicks : WaitTimeout(w)
  \/ CallTimeout
  \/ (mounted /\ ShowDialogTimer)
  \/ Unmount

TeardownSpec == Init /\ [][TeardownNext]_vars

\* The call as far as the scheduling of TTS audio is concerned.
TtsNext ==
  \/ startCall
  \/ WsOpen
  \/ WsClosed
  \/ Tick(MaxTtsTicks)
  \/ AudioStart
  \/ \E duration \in ChunkDurations : AudioChunk(duration, MaxChunks)
  \/ AudioEnd
  \/ TtsEndTimer
  \/ \E i \in 1..MaxChunks : SourceEnded(i)

TtsSpec == Init /\ [][TtsNext]_vars

\* The call as far as barge-in is concerned: the microphone frames of the
\* uplink graph, the mute button and the start and end of utterances.
BargeInNext ==
  \/ startCall
  \/ GetUserMediaSettles
  \/ WsOpen
  \/ WsClosing
  \/ Tick(MaxTicks)
  \/ AudioStart
  \/ AudioEnd
  \/ TtsEndTimer
  \/ \E loud \in BOOLEAN : onaudioprocess(loud)
  \/ ToggleMute

BargeInSpec == Init /\ [][BargeInNext]_vars

\* Barge-in while TTS audio is scheduled.
CancelNext ==
  \/ BargeInNext
  \/ AudioChunk(4 * FrameMs, MaxBargeChunks)

CancelSpec == Init /\ [][CancelNext]_vars

\* The socket and the audio uplink next to the recording and its uploads.
TransportNext ==
  \/ startCall
  \/ GetUserMediaSettles
  \/ WsOpen
  \/ WsClosing
  \/ WsClosed
  \/ StartUploadResolves
  \/ Segment(MaxEndSegs)
  \/ PartUploadSucceeds
  \/ PartUploadFails
  \/ Tick(MaxTtsTicks)
  \/ \E loud \in BOOLEAN : onaudioprocess(loud)

TransportSpec == Init /\ [][TransportNext]_vars

\* Everything the client sends on the socket.
ProtocolNext ==
  \/ NotesTimeout
  \/ startCall
  \/ GetUserMediaSettles
  \/ WsOpen
  \/ WsClosing
  \/ WsClosed
  \/ Tick(MaxTicks)
  \/ AudioStart
  \/ \E loud \in BOOLEAN : onaudioprocess(loud)
  \/ handleEndSession
  \/ CallTimeout

ProtocolSpec == Init /\ [][ProtocolNext]_vars

\* The end-to-end upload scenario: segments of 1 MiB each, every request
\* succeeds, the user ends the session.
ScenarioNext ==
  \/ startCall
  \/ GetUserMediaSettles
  \/ StartUploadResolves
  \/ SegmentOf({1}, ScenarioSegs)
  \/ FlushOf({1}, ScenarioSegs)
  \/ PartUploadSucceeds
  \/ onstop
  \/ FinalUploadSucceeds
  \/ handleEndSession

ScenarioSpec == Init /\ [][ScenarioNext]_vars

\* The call as far as messages the handler cannot read are concerned.
ErrorNext ==
  \/ startCall
  \/ WsOpen
  \/ WsClosed
  \/ Tick(MaxTtsTicks)
  \/ AudioStart
  \/ \E duration \in ChunkDurations : AudioChunk(duration, MaxErrorChunks)
  \/ AudioEnd
  \/ TtsEndTimer
  \/ \E i \in 1..MaxErrorChunks : SourceEnded(i)
  \/ MalformedMessage
  \/ BadAudioChunk

ErrorSpec == Init /\ [][ErrorNext]_vars

\* The call from the permission prompt to the visibility dialog.
DenialNext ==
  \/ startCall
  \/ GetUserMediaSettles
  \/ WsOpen
  \/ WsClosed
  \/ NegotiationComplete
  \/ handleEndSession
  \/ \E w \in 1..MaxEndClicks : WaitTimeout(w)
  \/ ShowDialogTimer

\* A timer that has been set fires.
FairDenialSpec ==
  /\ Init /\ [][DenialNext]_vars
  /\ WF_vars(\E w \in 1..MaxEndClicks : WaitTimeout(w))
  /\ WF_vars(ShowDialogTimer)

\* The call on a platform where the recorder setup throws, from the
\* permission prompt to the visibility choice.
DegradedNext ==
  \/ startCall
  \/ GetUserMediaSettlesOf(Setups \ {"ok"})
  \/ WsOpen
  \/ WsClosed
  \/ StartUploadResolves
  \/ Tick(MaxTtsTicks)
  \/ \E loud \in BOOLEAN : onaudioprocess(loud)
  \/ AudioStart
  \/ AudioChunk(4 * FrameMs, MaxBargeChunks)
  \/ (~autoEndRef /\ handleEndSession)
  \/ ShowDialogTimer
  \/ VisibilitySelect

DegradedSpec == Init /\ [][DegradedNext]_vars

\* The page is loaded again during a session.  NegotiationProvider starts from
\* its initial state and its hydration effect restores phase and callStartedAt
\* from localStorage (kept there only with a session id); every ref and every
\* piece of component state of the call page starts anew, and the effects of
\* the restored phase run: in the call phase a new socket is created and
\* getUserMedia is requested, in the ended phase the phase-ended effect
\* schedules the dialog.
Reload ==
  /\ mounted
  /\ connections < MaxConnections
  /\ phase' = IF sessionId THEN phase ELSE "notes"
  /\ callStartedAt' = IF sessionId THEN callStartedAt ELSE NotStarted
  /\ gum' = IF phase' = "call" THEN "pending" ELSE "idle"
  /\ wsState' = IF sessionId /\ phase' = "call" THEN "connecting" ELSE "none"
  /\ connections' = IF sessionId /\ phase' = "call" THEN connections + 1 ELSE connections
  /\ socketReady' = FALSE
  /\ wsSent' = <<>>
  /\ autoEndRef' = (phase' = "ended")
  /\ showTimers' = IF phase' = "ended" THEN 1 ELSE 0
  /\ unGated' = (unGated \/ phase' = "ended")
  /\ stream' = "none"
  /\ mediaError' = FALSE
  /\ recorderState' = "none"
  /\ recEvents' = "none"
  /\ startReq' = "none"
  /\ uploadIdRef' = FALSE
  /\ recordedChunksRef' = <<>>
  /\ pendingChunksRef' = <<>>
  /\ partNumberRef' = 1
  /\ uploadingRef' = FALSE
  /\ uploadedPartsRef' = <<>>
  /\ partUpload' = NoPart
  /\ finalUpload' = NoPart
  /\ negotiationCompleteRef' = FALSE
  /\ sessionDataStoredRef' = FALSE
  /\ sessionDataStoredResolveRef' = 0
  /\ waiters' = {}
  /\ ttsEndTimerRef' = FALSE
  /\ showVisibilityDialog' = FALSE
  /\ isProcessingPostMortem' = FALSE
  /\ flows' = <<>>
  /\ canvasAnimationRef' = FALSE
  /\ recordingAudioContextRef' = "none"
  /\ inputContextRef' = "none"
  /\ ttsContextRef' = FALSE
  /\ ttsQueueEndRef' = 0
  /\ ttsSourcesRef' = <<>>
  /\ ttsAudio' = <<>>
  /\ ttsStartTimeRef' = 0
  /\ isTtsPlayingRef' = FALSE
  /\ speechFrameCountRef' = 0
  /\ lastBargeInRef' = 0
  /\ isMuted' = FALSE
  /\ processorMuted' = FALSE
  /\ lastFrame' = NoFrame
  /\ speechRun' = 0
  /\ frameDue' = FALSE
  /\ UNCHANGED <<sessionId, dsp, now, mounted, navigated, completeRequests, endClicks,
                 waitElapsed, dialogShown, rejected, utterance, bargeIns, ttsEndTimerFor>>

\* The phases of a session and its sockets, over reloads of the page.
ReconnectNext ==
  \/ NotesTimeout
  \/ startCall
  \/ WsOpen
  \/ WsClosing
  \/ WsClosed
  \/ Tick(MaxReconnectTicks)
  \/ Reload
  \/ CallTimeout

ReconnectSpec == Init /\ [][ReconnectNext]_vars

\* The recording and the end of the session with an End button that can be
\* pressed more than once.
RepeatNext ==
  \/ startCall
  \/ GetUserMediaSettles
  \/ WsClosed
  \/ StartUploadResolves
  \/ Segment(MaxEndSegs)
  \/ Flush(MaxEndSegs)
  \/ PartUploadSucceeds
  \/ onstop
  \/ FinalUploadSucceeds
  \/ handleEndSession
  \/ ShowDialogTimer
  \/ VisibilitySelect
  \/ \E i \in 1..Len(flows) : CompleteSettles(i)

RepeatSpec == Init /\ [][RepeatNext]_vars

\* The call, before its time limit, as far as the end that follows
\* negotiation_complete is concerned; the user does not press End.
AutoEndNext ==
  \/ startCall
  \/ GetUserMediaSettles
  \/ WsOpen
  \/ WsClosed
  \/ Tick(MaxTicks)
  \/ AudioStart
  \/ AudioEnd
  \/ TtsEndTimer
  \/ NegotiationComplete
  \/ \E loud \in BOOLEAN : onaudioprocess(loud)
  \/ Flush(MaxEndSegs)
  \/ onstop
  \/ ShowDialogTimer

\* A timer that has been set fires, and the events a stopped recorder has
\* queued are dispatched.
FairAutoEndSpec ==
  /\ Init /\ [][AutoEndNext]_vars
  /\ WF_vars(TtsEndTimer)
  /\ WF_vars(ShowDialogTimer)
  /\ WF_vars(Flush(MaxEndSegs))
  /\ WF_vars(onstop)

(***************************************************************************)
(* Properties of the upload pipeline (UploadSpec)                          *)
(***************************************************************************)

IsPrefix(a, b) == Len(a) <= Len(b) /\ SubSeq(b, 1, Len(a)) = a
Increasing(q) == \A i, j \in 1..Len(q) : i < j => q[i] < q[j]
NoUploadInFlight == partUpload = NoPart /\ finalUpload = NoPart
\* the recorder has stopped, onstop has run and every request has settled
Settled == recEvents = "done" /\ NoUploadInFlight /\ startReq = "done"

\* C1: whenever no part upload is in flight, the part numbers in the
\* uploaded-parts list are exactly 1..k, without gap and without duplicate.
C1_PartNumbersGapless ==
  NoUploadInFlight =>
    /\ SeqRange(PartNumbers(uploadedPartsRef)) = 1..Len(uploadedPartsRef)
    /\ Cardinality(SeqRange(PartNumbers(uploadedPartsRef))) = Len(uploadedPartsRef)

\* C2: once the recorder has stopped and all uploads have settled (the upload
\* handle having been obtained), every recorded segment is in exactly one
\* uploaded part, so the uploaded sizes sum to the recorded total.
C2_AllBytesUploadedOnce ==
  (Settled /\ uploadIdRef) =>
    /\ SeqRange(ChunksOf(uploadedPartsRef)) = 1..Len(recordedChunksRef)
    /\ Len(ChunksOf(uploadedPartsRef)) = Len(recordedChunksRef)
    /\ SumSizes(recordedChunksRef, ChunksOf(uploadedPartsRef))
         = SumSizes(recordedChunksRef, [i \in 1..Len(recordedChunksRef) |-> i])

\* C3: when a part upload fails, the sealed chunks are back at the front of the
\* pending buffer, before the chunks that arrived during the attempt, and the
\* counter is back at the failed number (for a proactive part the handler goes
\* on to seal that buffer again at once, under the failed number); this holds
\* for the final part as for a proactive part.
C3_FailurePutsBack ==
  [][ /\ PartUploadFails =>
           \/ /\ pendingChunksRef' = partUpload.chunks \o pendingChunksRef
              /\ partNumberRef' = partUpload.part_number
           \/ /\ partUpload'.chunks = partUpload.chunks \o pendingChunksRef
              /\ partUpload'.part_number = partUpload.part_number
              /\ partNumberRef' = partUpload.part_number + 1
      /\ FinalUploadFails =>
           /\ IsPrefix(finalUpload.chunks, pendingChunksRef')
           /\ partNumberRef' = finalUpload.part_number
    ]_vars

\* C4: an uploaded part that was retried holds exactly the chunks of
\* its first sealing, and no part later in the list has its number.
C4_RetrySameBytes ==
  \A i \in 1..Len(uploadedPartsRef) :
    uploadedPartsRef[i].retried =>
      /\ uploadedPartsRef[i].chunks = uploadedPartsRef[i].first
      /\ \A j \in (i + 1)..Len(uploadedPartsRef) :
           uploadedPartsRef[j].part_number # uploadedPartsRef[i].part_number

\* C11: a part is given up after a bounded number of attempts: it is never
\* sealed as often as the model follows a part (MaxPartAttempts times, whatever
\* that bound is set to).
C11_RetriesBounded == partUpload.attempts < MaxPartAttempts

\* C5: at most one part upload is in flight, and parts are stored in the
\* order they were sealed (ascending part numbers).
C5_OneUploadInOrder ==
  /\ ~(partUpload # NoPart /\ finalUpload # NoPart)
  /\ Increasing(PartNumbers(uploadedPartsRef))


(***************************************************************************)
(* Properties of the end of the session                                    *)
(***************************************************************************)

\* C6: every request to complete the upload is made with no part upload in
\* flight, with every recorded segment in an uploaded part, and with the
\* parts list in ascending part-number order.
C6_CompleteSeesAllParts ==
  \A k \in 1..Len(completeRequests) :
    /\ ~completeRequests[k].inFlight
    /\ completeRequests[k].allUploaded
    /\ Increasing(completeRequests[k].parts)

\* C7: completion of the upload is requested only by handleVisibilitySelect,
\* when the user makes the visibility choice, and with the chosen isPublic;
\* no other step (recorder stop, final part upload) requests it.
C7_CompleteOnlyOnChoice ==
  [][ completeRequests' # completeRequests =>
        /\ showVisibilityDialog /\ ~showVisibilityDialog'
        /\ Len(flows') = Len(flows) + 1
        /\ Len(completeRequests') = Len(completeRequests) + 1
        /\ SubSeq(completeRequests', 1, Len(completeRequests)) = completeRequests
        /\ completeRequests'[Len(completeRequests')].isPublic = flows'[Len(flows')].isPublic
    ]_vars

\* the recorder has stopped, the final part is stored, the upload is being
\* completed as public
C7_Witness ==
  /\ recEvents = "done"
  /\ Len(completeRequests) = 1
  /\ completeRequests[1].isPublic
  /\ Len(flows) = 1 /\ flows[1].pc = "completing"

\* C8 as stated: on every end path the dialog is shown (and the choice made)
\* only after negotiation_complete was received or the 10 s wait elapsed.
C8_DialogGated ==
  (dialogShown \/ flows # <<>>) => (sessionDataStoredRef \/ waitElapsed)

\* C8 amended: the dialog timer is started, and the dialog shown, only after
\* negotiation_complete was received or the 10 s wait elapsed, except on the
\* paths that do not wait: the phase timeout, and an end button pressed while
\* the socket is not open and negotiation_complete has not been received.
C8_DialogGatedUnlessNoWait ==
  (showTimers > 0 \/ dialogShown \/ flows # <<>>) =>
    (sessionDataStoredRef \/ waitElapsed \/ unGated)

\* the dialog is shown after the bounded wait ran out, on no path that skips it
C8_Witness ==
  /\ showVisibilityDialog
  /\ waitElapsed /\ ~sessionDataStoredRef /\ ~unGated

\* C9: after handleEndSession has run the visibility dialog is eventually
\* shown, whatever the state of the socket.
C9_EndShowsDialog == (endClicks > 0) ~> dialogShown

\* C10: once the visibility choice is made the page is eventually left, and
\* the post-mortem request is made at most 6 times per choice.
C10_ChoiceEndsInNavigation ==
  /\ [](\A i \in 1..Len(flows) : flows[i].requests <= PostMortemAttempts)
  /\ (flows # <<>>) ~> (navigated # "no")

\* all six post-mortem requests failed and the page was left all the same
C10_Witness ==
  /\ navigated = "postmortem"
  /\ \E i \in 1..Len(flows) :
       flows[i].requests = PostMortemAttempts /\ flows[i].pc = "done"

(***************************************************************************)
(* Teardown                                                                *)
(***************************************************************************)

\* number of times message m was sent on the socket
SentCount(m) == Cardinality({i \in 1..Len(wsSent) : wsSent[i] = m})

\* C12: the teardown runs once however many triggers fire: end_negotiation is
\* sent at most once, at most one showing of the dialog is scheduled (a
\* pending wait or 500 ms timer) and none once the dialog has been shown, and
\* the recorder is stopped only while it records.
C12_TeardownOnce ==
  /\ [](/\ SentCount("end_negotiation") <= 1
        /\ showTimers + Cardinality(waiters) <= 1
        /\ dialogShown => showTimers + Cardinality(waiters) = 0)
  /\ [][recEvents' = "flush" => recEvents = "none" /\ recorderState = "recording"]_vars

Released ==
  /\ stream # "live"
  /\ recorderState # "recording"
  /\ recordingAudioContextRef # "open"
  /\ inputContextRef # "open"
  /\ ~canvasAnimationRef

\* C13: once an exit path has run (explicit end, auto end, phase timeout,
\* unmount), and also when getUserMedia resolves after it, every media track
\* is stopped, the recorder is stopped, the recording and uplink audio graphs
\* are closed and the draw loop is cancelled.
C13_ExitReleasesAll ==
  (autoEndRef \/ phase = "ended" \/ ~mounted) => Released

(***************************************************************************)
(* TTS playback                                                            *)
(***************************************************************************)

\* sources i and j are audible at the same time
Overlap(i, j) ==
  Max(ttsAudio[i].start, ttsAudio[j].start) < (IF ttsAudio[i].stop <= ttsAudio[j].stop
                                               THEN ttsAudio[i].stop ELSE ttsAudio[j].stop)

\* C14: at most one TTS source is audible at any time: no two sources
\* scheduled on the playback clock overlap, a source of the previous utterance
\* that is still playing at the next audio_start included.
C14_OneSourceAudible ==
  \A i, j \in 1..Len(ttsAudio) : i < j => ~Overlap(i, j)

\* C15: within one utterance every chunk starts at max(clockNow, queueEndTime)
\* and queueEndTime becomes that start plus the chunk's duration, so that the
\* chunks play in arrival order without overlap:
\* start(i) < start(i) + d(i) <= start(j) for chunks i before j.
C15_ChunksInOrder ==
  /\ [](\A i, j \in 1..Len(ttsAudio) :
          i < j /\ ttsAudio[i].utt = ttsAudio[j].utt =>
            /\ ttsAudio[i].start < ttsAudio[i].start + ttsAudio[i].duration
            /\ ttsAudio[i].start + ttsAudio[i].duration <= ttsAudio[j].start)
  /\ [][Len(ttsAudio') = Len(ttsAudio) + 1 =>
          LET source == ttsAudio'[Len(ttsAudio')]
          IN /\ source.start = Max(now, ttsQueueEndRef)
             /\ ttsQueueEndRef' = source.start + source.duration]_vars

\* three chunks of one utterance: the second arrives after the first has
\* ended, the third while the second is queued
C15_Witness ==
  /\ Len(ttsAudio) = 3
  /\ \A i \in 1..3 : ttsAudio[i].utt = 1
  /\ ttsAudio[2].start > ttsAudio[1].stop
  /\ ttsAudio[3].start = ttsAudio[2].stop
  /\ ttsAudio[3].start > now

\* C16: queueEndTime never decreases across audio_start, audio_chunk and
\* audio_end; only stopTtsPlayback may lower it.
C16_QueueEndMonotonic ==
  [][ttsQueueEndRef' < ttsQueueEndRef => Len(bargeIns') > Len(bargeIns)]_vars

\* C18: the idle transition scheduled by audio_end never fires after a later
\* audio_start or after a cancellation: both invalidate the pending timer.
C18_IdleTimerInvalidated ==
  [][(ttsEndTimerRef /\ ~ttsEndTimerRef' /\ mounted' /\ bargeIns' = bargeIns) =>
       utterance = ttsEndTimerFor]_vars

(***************************************************************************)
(* Barge-in                                                                *)
(***************************************************************************)

\* C17: a barge-in cancellation stops every TTS source that is scheduled or
\* playing, tracked or not, clears the idle timer, ends the speaking state and
\* sends barge_in when the socket is open; afterwards no source scheduled
\* earlier is audible. (isTtsPlayingRef stands for the speaking state; the
\* agentStatus and agentActivity shown on screen are not part of the model.)
C17_BargeInSilences ==
  [][Len(bargeIns') > Len(bargeIns) =>
       /\ \A i \in 1..Len(ttsAudio') : ttsAudio'[i].stop <= now
       /\ ~ttsEndTimerRef'
       /\ ~isTtsPlayingRef'
       /\ wsState = "open" => wsSent' = Append(wsSent, "barge_in")]_vars

\* C19: barge-in never fires twice within 1000 ms, whatever the interleaving
\* of audio frames, audio_start messages and mute toggles.
C19_BargeInDebounced ==
  \A i, j \in 1..Len(bargeIns) : i < j => bargeIns[j].at - bargeIns[i].at > 1000

\* a second barge-in has fired, after three speech frames of the second
\* utterance had been counted within 1000 ms of the first without firing
C19_Witness ==
  /\ Len(bargeIns) = 2
  /\ bargeIns[2].start - bargeIns[1].at <= 256

\* C20: barge-in fires only when the three most recent audio frames were
\* consecutive qualifying frames (RMS above the threshold while TTS is playing,
\* in the current playback) and more than 500 ms have passed since the
\* playback started; a count carried over a muted period, a closed-socket
\* period or an earlier playback never contributes.
C20_ThreeFreshFrames ==
  \A i \in 1..Len(bargeIns) :
    /\ bargeIns[i].run = 3
    /\ bargeIns[i].at - bargeIns[i].start > 500

\* C21: at most one cancellation, and one barge_in message, per playback:
\* between an audio_start and the next the detector fires at most once, and
\* while nothing is playing (isTtsPlayingRef is false) an audio frame cancels
\* nothing and sends no barge_in.
C21_OneBargeInPerPlayback ==
  /\ [](/\ \A i, j \in 1..Len(bargeIns) : i < j => bargeIns[i].utt < bargeIns[j].utt
        /\ SentCount("barge_in") = Len(bargeIns))
  /\ [][~isTtsPlayingRef =>
          /\ bargeIns' = bargeIns
          /\ Len(wsSent') > Len(wsSent) => wsSent'[Len(wsSent')] # "barge_in"]_vars

\* more than 1000 ms after the barge-in of the first utterance, frames having
\* been processed since, no second cancellation has happened in it
C21_Witness ==
  /\ Len(bargeIns) = 1
  /\ utterance = 1
  /\ ~isTtsPlayingRef
  /\ ~frameDue
  /\ ~isMuted
  /\ wsState = "open"
  /\ now - bargeIns[1].at > 1000

(***************************************************************************)
(* Audio uplink                                                            *)
(***************************************************************************)

\* a step in which the uplink graph handles an audio frame
FrameStep == frameDue /\ ~frameDue'

\* C22: no audio frame is transmitted while the user is muted or while the
\* socket is not open: a frame is sent only if, at that tick, the socket is
\* open and muted is false, for every interleaving of mute toggles, socket
\* state changes and audio ticks.
C22_SentOnlyUnmutedOpen ==
  [][FrameStep /\ lastFrame'.sent => wsState = "open" /\ ~isMuted]_vars

\* a frame was handled and not sent while muted, on an open socket, two speech
\* frames having been counted before the mute button was pressed
C22_Witness ==
  /\ isMuted
  /\ processorMuted
  /\ wsState = "open"
  /\ inputContextRef = "open"
  /\ ~frameDue
  /\ ~lastFrame.sent
  /\ speechFrameCountRef = 2

\* the value of speechFrameCountRef after a frame that ran the detector
counted(loud) ==
  IF ~loud THEN 0
  ELSE IF speechFrameCountRef + 1 >= 3 THEN 0 ELSE speechFrameCountRef + 1

C24_CloseLeavesRecording ==
  /\ [](wsState = "closed" => ~socketReady /\ inputContextRef # "open")
  /\ [][FrameStep /\ wsState # "open" => ~lastFrame'.sent]_vars
  /\ [][wsState # "closed" /\ wsState' = "closed" =>
          UNCHANGED <<recorderState, recEvents, stream, uploadVars>>]_vars
  /\ [](wsState = "closed" /\ partUpload # NoPart =>
          ENABLED PartUploadSucceeds)
  /\ [](wsState = "closed" /\ recorderState = "recording"
          /\ Len(recordedChunksRef) < MaxEndSegs => ENABLED Segment(MaxEndSegs))

\* the socket closed without ever having opened; the recorder runs and a part
\* has been stored
C24_Witness ==
  /\ wsState = "closed"
  /\ recorderState = "recording"
  /\ Len(uploadedPartsRef) = 1
  /\ partUpload = NoPart
  /\ callStartedAt = NotStarted

\* C25: a socket is opened only when the phase is call with a session id, and
\* on each connection initialize is sent exactly once, on open, before any
\* audio frame, barge_in or end_negotiation is sent on that connection.
C25_InitializeFirst ==
  /\ [](/\ wsState # "none" => sessionId /\ phase = "call"
        /\ wsSent # <<>> => wsSent[1] = "initialize"
        /\ SentCount("initialize") <= 1
        /\ wsState \in {"open", "closing"} => SentCount("initialize") = 1
        /\ lastFrame.sent => SentCount("initialize") = 1)
  /\ [][SentCount("initialize")' > SentCount("initialize") =>
          wsState = "connecting" /\ wsState' = "open"]_vars

\* initialize, then a barge_in, then end_negotiation, with audio frames sent
C25_Witness ==
  /\ wsSent = <<"initialize", "barge_in", "end_negotiation">>
  /\ lastFrame.sent

(***************************************************************************)
(* Upload scenarios                                                        *)
(***************************************************************************)

\* the recording has ended after 6 segments, the upload handle was obtained
\* and no request is in flight
ScenarioDone ==
  /\ Len(recordedChunksRef) = 6
  /\ recEvents = "done"
  /\ uploadIdRef
  /\ NoUploadInFlight

\* part 1 holds the first five segments, part 2 the sixth
TwoParts ==
  /\ Len(uploadedPartsRef) = 2
  /\ \E i, j \in 1..2 :
       /\ uploadedPartsRef[i].part_number = 1
       /\ uploadedPartsRef[i].chunks = <<1, 2, 3, 4, 5>>
       /\ uploadedPartsRef[j].part_number = 2
       /\ uploadedPartsRef[j].chunks = <<6>>

\* C26: with 6 segments of 1 MiB and a minimum part size of 5 MiB exactly one
\* part of 5 MiB is uploaded proactively, sealed when the fifth segment
\* arrives, and on stop the remaining 1 MiB is uploaded as the final part:
\* 2 parts, numbered 1 and 2, 6 MiB in all, whenever the upload handle is
\* obtained.
C26_SixSegmentsTwoParts == ScenarioDone => TwoParts

\* the two parts are what the code uploads when startMultipartUpload resolves
\* before the fifth segment arrives
TwoPartsWhenHandleEarly ==
  [](uploadIdRef /\ Len(recordedChunksRef) < 5 => [](ScenarioDone => TwoParts))

\* C27: every uploaded part except the one with the highest part number has
\* at least the minimum part size; only the last part may be smaller, also
\* after failures and retries.
C27_OnlyLastPartSmall ==
  \A i \in 1..Len(uploadedPartsRef) :
    (\E j \in 1..Len(uploadedPartsRef) :
       uploadedPartsRef[j].part_number > uploadedPartsRef[i].part_number)
    => SumSizes(recordedChunksRef, uploadedPartsRef[i].chunks) >= MIN_PART_SIZE

\* two full parts, the first of them stored at its second attempt, and a
\* smaller final part
C27_Witness ==
  /\ Len(uploadedPartsRef) = 3
  /\ \E i \in 1..3 : uploadedPartsRef[i].retried
  /\ \E i \in 1..3 :
       /\ uploadedPartsRef[i].part_number = 3
       /\ SumSizes(recordedChunksRef, uploadedPartsRef[i].chunks) < MIN_PART_SIZE

(***************************************************************************)
(* Messages the handler cannot read                                        *)
(***************************************************************************)

\* ws.onmessage has just thrown on a message of this kind
Rejects(kind) == rejected' # rejected /\ rejected'.kind = kind

\* C28: a socket message that is not JSON only surfaces the generic error
\* message: the connection stays open, the scheduler state (playing flag,
\* watermark, tracked sources) and everything else is unchanged, and the
\* messages that follow are handled as before.
C28_MalformedOnlySurfaces ==
  [][Rejects("json") =>
       /\ mediaError'
       /\ wsState' = "open"
       /\ UNCHANGED <<ttsVars, socketVars, endVars, resourceVars, uploadVars, finishVars,
                      sessionId, dsp, connections, phase, callStartedAt, gum, stream, recorderState, recEvents>>]_vars

\* a chunk has been scheduled and is tracked, the socket is open, and the last
\* thing the handler did was reject a message that is not JSON
C28_Witness ==
  /\ rejected.kind = "json"
  /\ mediaError
  /\ wsState = "open"
  /\ isTtsPlayingRef
  /\ Len(ttsSourcesRef) = 1
  /\ ttsQueueEndRef > now

\* C29: an audio_chunk that does not decode is dropped without halting
\* playback: no source is scheduled, queueEndTime and the tracked sources are
\* unchanged, and a valid chunk that follows is scheduled at the later of the
\* clock and the unchanged queue end.
C29_BadChunkDropped ==
  /\ [][Rejects("chunk") =>
          UNCHANGED <<ttsQueueEndRef, ttsSourcesRef, ttsAudio, isTtsPlayingRef, ttsStartTimeRef,
                      ttsEndTimerFor, utterance, now, socketVars>>]_vars
  /\ [][rejected.kind = "chunk" /\ Len(ttsAudio') > Len(ttsAudio) =>
          /\ ttsAudio'[Len(ttsAudio')].start = Max(now, ttsQueueEndRef)
          /\ ttsQueueEndRef' = ttsAudio'[Len(ttsAudio')].stop
          /\ ttsSourcesRef' = Append(ttsSourcesRef, Len(ttsAudio'))]_vars

\* a chunk that does not decode has been dropped, and two valid chunks are
\* queued back to back and tracked
C29_Witness ==
  /\ rejected.kind = "chunk"
  /\ Len(ttsAudio) = 2
  /\ ttsAudio[2].start = ttsAudio[1].stop
  /\ ttsAudio[2].start > now
  /\ ttsSourcesRef = <<1, 2>>

(***************************************************************************)
(* Camera and microphone permission                                        *)
(***************************************************************************)

\* getUserMedia has rejected
Denied == gum = "done" /\ mediaError /\ stream = "none"

\* after the rejection no stream, recorder, audio graph or upload exists
NothingStarted ==
  /\ recorderState = "none"
  /\ recEvents = "none"
  /\ startReq = "none"
  /\ recordedChunksRef = <<>>
  /\ uploadedPartsRef = <<>>
  /\ NoUploadInFlight
  /\ recordingAudioContextRef # "open"
  /\ inputContextRef # "open"

\* the socket of the call exists, and once it is open initialize has been sent
SocketInitialized ==
  /\ phase = "call" /\ sessionId => wsState # "none"
  /\ wsState = "open" => wsSent # <<>> /\ wsSent[1] = "initialize"

\* C30: when camera/microphone permission is denied a media error is surfaced
\* and nothing else breaks: no stream, recorder or upload is started, the
\* socket is still opened and initialized in the call phase, and ending the
\* session still leads to the visibility dialog.
C30_DenialNotFatal ==
  /\ [](Denied => NothingStarted /\ SocketInitialized)
  /\ [](Denied /\ endClicks = 0 => []((endClicks > 0) => <>dialogShown))

\* the parts of C30 that do not involve the end button
DenialStartsNothing == Denied => NothingStarted /\ SocketInitialized

(***************************************************************************)
(* Recorder setup that throws                                              *)
(***************************************************************************)

\* permission was given and the recorder setup threw: the recorder, if it
\* exists, has never been started
SetupThrew ==
  /\ gum = "done"
  /\ ~mediaError
  /\ recorderState # "recording"
  /\ recEvents = "none"

\* C31: when the recorder setup throws, recording is disabled but the call
\* works: the stream is set, the uplink graph runs while the socket is ready
\* and an audio_chunk is played, no part upload is attempted, and the
\* visibility choice skips the completion because there are no parts.
C31_NoRecorderCallWorks ==
  /\ [](SetupThrew =>
          /\ stream \in {"live", "stopped"}
          /\ stream = "live" /\ socketReady /\ wsState = "open" => inputContextRef = "open"
          /\ wsState = "open" /\ Len(ttsAudio) < MaxBargeChunks
                => ENABLED AudioChunk(4 * FrameMs, MaxBargeChunks)
          /\ recordedChunksRef = <<>> /\ uploadedPartsRef = <<>> /\ NoUploadInFlight
          /\ ~ENABLED Segment(MaxEndSegs) /\ ~ENABLED Flush(MaxEndSegs) /\ ~ENABLED onstop
          /\ ~ENABLED PartUploadSucceeds /\ ~ENABLED FinalUploadSucceeds
          /\ completeRequests = <<>>
          /\ \A i \in 1..Len(flows) : flows[i].pc # "completing")
  /\ [][SetupThrew /\ stream = "live" /\ wsState = "open" /\ frameDue /\ ~frameDue'
          => lastFrame'.sent]_vars

\* mediaRecorder.start threw and the upload handle was obtained; a frame was
\* sent and a chunk scheduled during the call, and the visibility choice has
\* gone on to the post-mortem request
C31_Witness ==
  /\ SetupThrew
  /\ recorderState = "inactive"
  /\ uploadIdRef
  /\ lastFrame.sent
  /\ Len(ttsAudio) = 1
  /\ Len(flows) = 1
  /\ flows[1].pc = "postmortem"

(***************************************************************************)
(* Audio conversion functions: claims                                      *)
(***************************************************************************)

Abs(x) == IF x < 0 THEN -x ELSE x

\* C32: for all input lengths and all pairs of rates, downsampleBuffer returns
\* an output of length round(inputLength * outputRate / inputRate) within 1
\* sample, and returns the input unchanged when the two rates are equal.
C32_ResampledLength ==
  dsp.fn = "downsampleBuffer" /\ dsp.done =>
    /\ Abs(Len(dsp.output)
           - MathRound(Len(dsp.input) * dsp.outputSampleRate, dsp.inputSampleRate)) <= 1
    /\ dsp.inputSampleRate = dsp.outputSampleRate => dsp.output = dsp.input

\* six samples at 44100 Hz have become two samples at 16000 Hz, the first
\* the mean of input samples 0 to 2, the second of samples 3 to 5
C32_Witness ==
  /\ dsp.fn = "downsampleBuffer" /\ dsp.done
  /\ dsp.inputSampleRate = 44100 /\ dsp.outputSampleRate = 16000
  /\ Len(dsp.input) = 6
  /\ Len(dsp.output) = 2
  /\ dsp.output[1].count = 3 /\ dsp.output[2].count = 3

\* 32768 * SampleScale times the distance between input sample i and what
\* comes back for it
RoundTripError(i) == Abs(dsp.output[i].den * dsp.input[i] - dsp.output[i].num * SampleScale)

PhaseRank(p) ==
  CASE p = "notes" -> 0 [] p = "ready" -> 1 [] p = "call" -> 2 [] p = "ended" -> 3

\* C34: the phase only moves forward in the order notes, ready, call, ended:
\* no step moves it to an earlier phase, and ended is never left.
C34_PhaseMovesForward ==
  /\ [][PhaseRank(phase') >= PhaseRank(phase)]_vars
  /\ [][phase = "ended" => phase' = "ended"]_vars

\* the call has run into its time limit and the dialog is shown
C34_Witness == phase = "ended" /\ callStartedAt # NotStarted /\ dialogShown

(***************************************************************************)
(* The end that follows negotiation_complete                               *)
(***************************************************************************)

AutoEndReached ==
  negotiationCompleteRef /\ dialogShown /\ recorderState = "inactive" /\ endClicks = 0

(***************************************************************************)
(* The visibility choice                                                   *)
(***************************************************************************)

\* C36: completion of the multipart upload is requested at most once per
\* session: the visibility choice cannot be made twice, also when two end
\* triggers each schedule the dialog or a delayed timer shows the dialog again
\* after the user has chosen.
C36_CompleteOnce == Len(completeRequests) <= 1 /\ Len(flows) <= 1

(***************************************************************************)
(* After end_negotiation                                                   *)
(***************************************************************************)

\* C37: after the client has sent end_negotiation on a connection, it sends
\* no further audio frame and no barge_in on that connection.
C37_SilentAfterEnd ==
  [][SentCount("end_negotiation") > 0
       => /\ ~(FrameStep /\ lastFrame'.sent)
          /\ SentCount("barge_in")' = SentCount("barge_in")]_vars

(***************************************************************************)
(* Chunks outside a playback                                               *)
(***************************************************************************)

\* C38: whenever a TTS source is scheduled or playing, isTtsPlayingRef is true
\* and the source is in the tracked list, so barge-in can still cancel it: an
\* audio_chunk that arrives after a cancellation or after the idle timer
\* fired, and before the next audio_start, is not played.
\* (Stated for the chunks that follow an audio_start.)
C38_PlayingIsTracked ==
  \A i \in 1..Len(ttsAudio) :
    ttsAudio[i].utt > 0 /\ ttsAudio[i].stop > now
      => isTtsPlayingRef /\ i \in SeqRange(ttsSourcesRef)

(***************************************************************************)
(* Segments recorded before the upload handle                              *)
(***************************************************************************)

\* no part upload is attempted without the upload handle, and until the handle
\* arrives every recorded segment is in the pending buffer, in order
PendingUntilHandle ==
  /\ ~uploadIdRef =>
       /\ NoUploadInFlight
       /\ uploadedPartsRef = <<>>
       /\ pendingChunksRef = [i \in 1..Len(recordedChunksRef) |-> i]

\* C39: no part upload is attempted before the upload handle has been
\* obtained, and the segments that arrive earlier are not lost: they stay in
\* the pending buffer in order and are uploaded in a later part, also when the
\* handle arrives only after the last segment or after the recorder has
\* stopped.
C39_EarlySegmentsUploaded ==
  /\ PendingUntilHandle
  /\ ScenarioDone => SeqRange(ChunksOf(uploadedPartsRef)) = 1..Len(recordedChunksRef)

(***************************************************************************)
(* The call start time                                                     *)
(***************************************************************************)

\* C40: the call start time is set at most once, and only while the phase is
\* call and the socket is ready; the call-duration timeout (phase call to
\* ended) can fire only after it is set, and once set it is never changed by
\* later socket reconnects.
C40_CallStartSetOnce ==
  [][/\ callStartedAt' # callStartedAt =>
          /\ callStartedAt = NotStarted
          /\ callStartedAt' = now
          /\ phase' = "call" /\ socketReady'
     /\ phase = "call" /\ phase' = "ended" => callStartedAt # NotStarted
     /\ callStartedAt # NotStarted /\ connections' > connections
          => callStartedAt' = callStartedAt]_vars

\* a second socket of the session is open, later than the call start time
\* that was stamped when the first one opened
C40_Witness ==
  /\ connections = 2
  /\ phase = "call"
  /\ socketReady
  /\ callStartedAt = StartTime
  /\ now > callStartedAt

\* the call-duration timeout has fired on the second socket
CallEndedAfterReconnect ==
  /\ connections = 2
  /\ phase = "ended"
  /\ callStartedAt = StartTime

====
